---- MODULE Spec2Model ----
(***************************************************************************)
(* A model of the ionsible 2D sprite engine: the Sprite behaviour host     *)
(* (src/src/sprite.ts), the Game frame driver and scene traversal          *)
(* (src/src/game.ts) and the Keys input tracker (src/src/keys.ts).         *)
(*                                                                         *)
(* JavaScript runs every handler to completion, so each handler is one     *)
(* action.  The calls a handler makes are recorded, in call order, in a    *)
(* log variable that holds the calls of the most recent handler.           *)
(***************************************************************************)
EXTENDS Integers, Sequences, FiniteSets, TLC

(***************************************************************************)
(* Bounds of the model.                                                    *)
(***************************************************************************)
MaxBehaviors == 2
MaxUpdates == 3

MaxTicks == 2
MaxDrivers == 1
MaxRegistrations == 2

MaxKeyBehaviors == 2
MaxRotation == 5

VARIABLES
    sprite,        \* the Sprite object's fields
    factoryCalls,  \* per position of the behaviors list: times its factory ran
    spriteLog,     \* calls made by the most recent Sprite method call
    spriteCall,    \* the most recent Sprite method call and its argument
    spriteEntry,   \* kinematic fields on entry to the most recent update
    posHistory,    \* per update call so far: pos on entry and pos on return
    declared,      \* the behaviors list the sprite was constructed with
    destroyed      \* whether destroy() has emptied the instance list

spriteVars ==
    <<sprite, factoryCalls, spriteLog, spriteCall, spriteEntry, posHistory,
      declared, destroyed>>

VARIABLES
    scene,             \* Game.scene
    paused,            \* Game.paused
    elapsed,           \* Game.elapsed, in ms
    fps,               \* Game.fps
    maxFramesSkipped,  \* Game.maxFramesSkipped
    now,               \* the wall clock, in ms
    drivers,           \* per setInterval driver made by start(): its lastTime
    tickLog,           \* calls made by the most recent tick
    lastTick,          \* the most recent tick: driver, wall time since its reference, paused
    tickedAt,          \* per driver: wall clock at its previous tick (or its start)
    unpausedSum,       \* sum over unpaused ticks of min(wall time, bound at the tick)
    nTicks

gameVars ==
    <<scene, paused, elapsed, fps, maxFramesSkipped, now, drivers, tickLog,
      lastTick, tickedAt, unpausedSum, nTicks>>

VARIABLES
    connections,    \* Keys.connections: key name -> the label its handler sets
    downs,          \* Keys.downs: key name -> handler
    ups,            \* Keys.ups: key name -> handler
    keys,           \* Keys.keys: the key names marked as pressed
    actionTracker,  \* Keys.actionTracker: the labels of the most recent pulse
    listening,      \* the event types for which the tracker's listener is registered
    keysLog,        \* calls made by the most recent handler or method of Keys
    keysCall,       \* the most recent handler or method of Keys
    heldPhysical,   \* the physical keys down: a keydown seen with no later keyup
    associations,   \* every <<label, key name>> registered through actions()
    nRegistrations  \* calls of actions(), onDown() and onUp() so far

keysVars ==
    <<connections, downs, ups, keys, actionTracker, listening, keysLog, keysCall,
      heldPhysical, associations, nRegistrations>>

VARIABLES
    kbSprite,     \* a Sprite whose behaviors are key behaviours and SpeedRamp
    window,       \* the listeners registered on the target, in registration order
    trackers,     \* the Keys objects made by the sprite's behaviours, in order of creation
    kbHeld,       \* the physical keys down
    kbLog,        \* calls made by the most recent method call or event dispatch
    kbCall,       \* the most recent method call or event
    kbDeclared,   \* the behaviors list the sprite was constructed with
    kbDestroyed,  \* whether destroy() has run to its end on the sprite
    kbEntry       \* pos, vel, accel and rotation on entry to the most recent call or event

kbVars ==
    <<kbSprite, window, trackers, kbHeld, kbLog, kbCall, kbDeclared, kbDestroyed,
      kbEntry>>

VARIABLES
    phSprite,   \* a Sprite updated by one movement behaviour at a time
    phEntry,    \* its pos, vel, accel and rotation on entry to the most recent update
    phCall,     \* the most recent behaviour update and its arguments
    phLog       \* callback calls made by the most recent behaviour update

physVars == <<phSprite, phEntry, phCall, phLog>>

VARIABLES
    camera,     \* the Camera's pos, rotation, scale and drawBB
    placement,  \* pos and rotation of each positioned drawable
    context,    \* the canvas context: its transform and its stack of saved states
    canvasLog,  \* draw and strokeRect calls of the most recent render
    cameraCall  \* the most recent render or assignment

camVars == <<camera, placement, context, canvasLog, cameraCall>>

VARIABLES
    document,   \* the page: how many canvases each element has had appended
    games,      \* the Game objects constructed, each with its drivers and ticks
    ctorCall    \* the most recent `new Game`, start() or timer callback

ctorVars == <<document, games, ctorCall>>

vars == <<spriteVars, gameVars, keysVars, kbVars, physVars, camVars, ctorVars>>

(***************************************************************************)
(* JavaScript `undefined` against a value: an optional value is a sequence *)
(* of length 0 (undefined) or 1 (the value).                               *)
(***************************************************************************)
Undefined == <<>>
Some(v) == <<v>>
IsDefined(o) == Len(o) = 1
Val(o) == o[1]

RECURSIVE Reverse(_)
Reverse(s) == IF s = <<>> THEN <<>> ELSE Reverse(Tail(s)) \o <<Head(s)>>

(***************************************************************************)
(* Kinematics (space-time.ts).  A Duration is its millisecond count; a     *)
(* vector is a record of two numbers.  The inputs of the model are chosen  *)
(* so that every product rate * ms is a multiple of 1000 and the division  *)
(* of Duration.s is exact.                                                 *)
(***************************************************************************)
point(x, y) == [x |-> x, y |-> y]

Clone(p) == [x |-> p.x, y |-> p.y]

Advanced(p, v, ms) == [x |-> p.x + (v.x * ms) \div 1000,
                       y |-> p.y + (v.y * ms) \div 1000]

Kinematics(sp) ==
    [pos |-> sp.pos, vel |-> sp.vel, accel |-> sp.accel, rotation |-> sp.rotation]

(***************************************************************************)
(* Behaviours.  A factory is (game, sprite) -> IUpdatable; the model uses  *)
(* three library behaviours that read and overwrite pos, vel and accel.    *)
(***************************************************************************)
BehaviorFactories ==
    { [kind |-> "Momentum", arg |-> 0],
      [kind |-> "Acceleration", arg |-> 0],
      [kind |-> "Thrust", arg |-> 2] }

MomentumUpdate(st, delta) ==
    [st EXCEPT !.pos = Advanced(st.pos, st.vel, delta)]

AccelerationUpdate(st, delta) ==
    [st EXCEPT !.vel = Advanced(st.vel, st.accel, delta)]

ThrustUpdate(st, strength) ==
    [st EXCEPT !.accel = point(strength * st.accel.x, strength * st.accel.y)]

BehaviorUpdate(b, st, delta) ==
    CASE b.kind = "Momentum" -> MomentumUpdate(st, delta)
      [] b.kind = "Acceleration" -> AccelerationUpdate(st, delta)
      [] b.kind = "Thrust" -> ThrustUpdate(st, b.arg)

(***************************************************************************)
(* Sprite (sprite.ts).                                                     *)
(***************************************************************************)
FactoryCall(i, inst) ==
    [op |-> "factory", idx |-> i, inst |-> inst, delta |-> 0,
     seen |-> Undefined, lastPos |-> Undefined]

UpdateCall(inst, delta, st, lp) ==
    [op |-> "update", idx |-> inst.factory, inst |-> inst, delta |-> delta,
     seen |-> Some(st), lastPos |-> lp]

DestroyCall(inst) ==
    [op |-> "destroy", idx |-> inst.factory, inst |-> inst, delta |-> 0,
     seen |-> Undefined, lastPos |-> Undefined]

\* behaviors.map(x => x(this.game, this)): one new instance per list position.
Materialize(factories, calls) ==
    [i \in 1..Len(factories) |->
        [factory |-> i, gen |-> calls[i] + 1,
         kind |-> factories[i].kind, arg |-> factories[i].arg]]

MaterializeLog(insts) == [i \in 1..Len(insts) |-> FactoryCall(i, insts[i])]

RECURSIVE RunBehaviorsFrom(_, _, _, _)
RunBehaviorsFrom(insts, st, lp, delta) ==
    IF insts = <<>> THEN [st |-> st, log |-> <<>>]
    ELSE LET b == Head(insts)
             rest == RunBehaviorsFrom(Tail(insts), BehaviorUpdate(b, st, delta), lp, delta)
         IN [st |-> rest.st, log |-> <<UpdateCall(b, delta, st, lp)>> \o rest.log]

RunBehaviorsReversed(insts, st, lp, delta) ==
    RunBehaviorsFrom(Reverse(insts), st, lp, delta)

\* behaviorsInst.forEach(x => x.update(delta))
RunBehaviors(insts, st, lp, delta) == RunBehaviorsFrom(insts, st, lp, delta)

EntryLastPosStale(sp) ==
    IF IsDefined(sp.lastPos) THEN sp.lastPos ELSE Some(Clone(sp.pos))

\* this.lastPos = this.pos.clone()
EntryLastPos(sp) == Some(Clone(sp.pos))

FactoriesKept(sp) == sp.behaviors

\* this.behaviors = undefined
FactoriesAfterUpdate(sp) == Undefined

\* Sprite.update(delta): the sprite afterwards and the calls made.
SpriteUpdateResult(sp, calls, delta) ==
    LET lp == EntryLastPos(sp)
        first == IsDefined(sp.behaviors)
        insts == IF first THEN Materialize(Val(sp.behaviors), calls)
                          ELSE Val(sp.behaviorsInst)
        made == IF first THEN MaterializeLog(insts) ELSE <<>>
        run == RunBehaviors(insts, Kinematics(sp), lp, delta)
    IN [sprite |-> [pos |-> run.st.pos, vel |-> run.st.vel, accel |-> run.st.accel,
                    rotation |-> run.st.rotation, lastPos |-> lp,
                    behaviors |-> IF first THEN FactoriesAfterUpdate(sp) ELSE sp.behaviors,
                    behaviorsInst |-> Some(insts)],
        calls |-> IF first THEN [i \in DOMAIN calls |-> calls[i] + 1] ELSE calls,
        log |-> made \o run.log]

\* Sprite.destroy(): pops the instances from the end, destroying each.
SpriteDestroyResult(sp) ==
    IF ~IsDefined(sp.behaviorsInst)
    THEN [sprite |-> sp, log |-> <<>>, threw |-> TRUE]
    ELSE LET bs == Reverse(Val(sp.behaviorsInst))
         IN [sprite |-> [sp EXCEPT !.behaviorsInst = Some(<<>>)],
             log |-> [i \in 1..Len(bs) |-> DestroyCall(bs[i])],
             threw |-> FALSE]

DeltaChoices == {0, 500, 1000}
VelChoices == {point(0, 0), point(2, -4)}
AccelChoices == {point(0, 0), point(4, 8)}

BehaviorLists ==
    UNION { [1..n -> BehaviorFactories] : n \in 0..MaxBehaviors }

NewSprite(bl, v, a) ==
    [pos |-> point(0, 0), vel |-> v, accel |-> a, rotation |-> 0,
     lastPos |-> Undefined, behaviors |-> Some(bl), behaviorsInst |-> Undefined]

SpriteInit ==
    \E bl \in BehaviorLists, v \in VelChoices, a \in AccelChoices :
        /\ sprite = NewSprite(bl, v, a)
        /\ declared = bl
        /\ factoryCalls = [i \in 1..Len(bl) |-> 0]
        /\ spriteLog = <<>>
        /\ spriteCall = [op |-> "new", delta |-> 0, threw |-> FALSE]
        /\ spriteEntry = Kinematics(NewSprite(bl, v, a))
        /\ posHistory = <<>>
        /\ destroyed = FALSE

SpriteUpdate(delta) ==
    /\ Len(posHistory) < MaxUpdates
    /\ LET r == SpriteUpdateResult(sprite, factoryCalls, delta)
       IN /\ sprite' = r.sprite
          /\ factoryCalls' = r.calls
          /\ spriteLog' = r.log
          /\ posHistory' = Append(posHistory, [entry |-> sprite.pos, end |-> r.sprite.pos])
    /\ spriteCall' = [op |-> "update", delta |-> delta, threw |-> FALSE]
    /\ spriteEntry' = Kinematics(sprite)
    /\ UNCHANGED <<declared, destroyed>>
    /\ UNCHANGED <<gameVars, keysVars, kbVars, physVars, camVars, ctorVars>>

SpriteDestroy ==
    /\ LET r == SpriteDestroyResult(sprite)
       IN /\ sprite' = r.sprite
          /\ spriteLog' = r.log
          /\ spriteCall' = [op |-> "destroy", delta |-> 0, threw |-> r.threw]
          /\ destroyed' = (destroyed \/ ~r.threw)
    /\ UNCHANGED <<factoryCalls, spriteEntry, posHistory, declared>>
    /\ UNCHANGED <<gameVars, keysVars, kbVars, physVars, camVars, ctorVars>>

SpriteNext ==
    \/ \E delta \in DeltaChoices : SpriteUpdate(delta)
    \/ SpriteDestroy

(***************************************************************************)
(* Game (game.ts): the scene, the tunables and the frame driver.           *)
(*                                                                         *)
(* A scene element is known to the game only through the interfaces it     *)
(* implements: IUpdatable (it has update), IPositionedDrawable (pos,       *)
(* rotation, autoRotate) and ISpriteContainer (it has subsprites).         *)
(***************************************************************************)
Entities == 1..5
UpdatableEntities == {1, 2, 4, 5}
DrawableEntities == {1, 2, 4, 5}

\* arg.subsprites: entity 1 is a sprite holding <<3, 4>>, entity 3 is a bare
\* container holding <<5>>; the others have no subsprites field.
subsprites(n) ==
    CASE n = 1 -> Some(<<3, 4>>)
      [] n = 3 -> Some(<<5>>)
      [] OTHER -> Undefined

isUpdatable(n) == n \in UpdatableEntities
isPositionedDrawable(n) == n \in DrawableEntities

\* arg.autoRotate: the entities 1 and 4 keep Sprite's default, true; the
\* classes of the entities 2 and 5 declare autoRotate = false.
autoRotate(n) == n \in {1, 4}
isSpriteContainer(n) == IsDefined(subsprites(n))

\* The scenes handed to setScene: each is a tree.
SceneChoices == { <<1, 2>>, <<3, 2>>, <<>> }

FpsChoices == {50, 25}
MaxFramesSkippedChoices == {5, 1}
WallSteps == {20, 150}

DefaultFps == 50
DefaultMaxFramesSkipped == 5

GameCall(op, node, delta) == [op |-> op, node |-> node, delta |-> delta]

Min(a, b) == IF a <= b THEN a ELSE b

\* new Duration(1000/this.fps * this.maxFramesSkipped)
MaxDelta(f, m) == (1000 \div f) * m

ClampAbove(delta, maxDelta) == IF delta < maxDelta THEN maxDelta ELSE delta

\* if (delta.ms > maxDelta.ms) delta = maxDelta
Clamp(delta, maxDelta) == IF delta > maxDelta THEN maxDelta ELSE delta

RECURSIVE UpdateSceneFrom(_, _), UpdateElements(_, _)

\* the body of scene.forEach in updateScene
UpdateElements(sc, delta) ==
    IF sc = <<>> THEN <<>>
    ELSE LET arg == Head(sc)
         IN (IF isUpdatable(arg) THEN <<GameCall("update", arg, delta)>> ELSE <<>>)
            \o (IF isSpriteContainer(arg)
                THEN UpdateSceneFrom(Val(subsprites(arg)), delta) ELSE <<>>)
            \o UpdateElements(Tail(sc), delta)

UpdateSceneFrom(sc, delta) ==
    UpdateElements(sc, delta) \o <<GameCall("cameraUpdate", 0, delta)>>

RECURSIVE UpdateChildrenFirst(_, _)
UpdateChildrenFirst(sc, delta) ==
    IF sc = <<>> THEN <<>>
    ELSE LET arg == Head(sc)
         IN (IF isSpriteContainer(arg)
             THEN UpdateChildrenFirst(Val(subsprites(arg)), delta) ELSE <<>>)
            \o (IF isUpdatable(arg) THEN <<GameCall("update", arg, delta)>> ELSE <<>>)
            \o UpdateChildrenFirst(Tail(sc), delta)

UpdateSceneChildrenFirst(sc, delta) ==
    UpdateChildrenFirst(sc, delta) \o <<GameCall("cameraUpdate", 0, delta)>>

\* Game.updateScene(scene, delta): the calls it makes, in order.
UpdateScene(sc, delta) == UpdateSceneFrom(sc, delta)

RECURSIVE RenderElements(_)

\* the body of scene.forEach in Camera.render
RenderElements(sc) ==
    IF sc = <<>> THEN <<>>
    ELSE LET arg == Head(sc)
         IN (IF isPositionedDrawable(arg) THEN <<GameCall("draw", arg, 0)>> ELSE <<>>)
            \o (IF isSpriteContainer(arg)
                THEN <<GameCall("renderSub", arg, 0)>>
                     \o RenderElements(Val(subsprites(arg)))
                ELSE <<>>)
            \o RenderElements(Tail(sc))

\* this.camera.render(this.scene): the calls made, in order.
Render(sc) == <<GameCall("render", 0, 0)>> \o RenderElements(sc)

TickCallsRenderFirst(sc, isPaused, delta) ==
    Render(sc) \o (IF ~isPaused THEN UpdateScene(sc, delta) ELSE <<>>)

TickCallsUpdateAlways(sc, isPaused, delta) ==
    UpdateScene(sc, delta) \o Render(sc)

\* The calls of one timer callback: the updates when not paused, then the render.
TickCalls(sc, isPaused, delta) ==
    (IF ~isPaused THEN UpdateScene(sc, delta) ELSE <<>>) \o Render(sc)

\* if (!this.paused) this.elapsed = new Duration(this.elapsed.ms + delta.ms)
ElapsedAfterTick(e, isPaused, delta) == IF ~isPaused THEN e + delta ELSE e

LastTimeKeptWhilePaused(last, nowT, isPaused) == IF isPaused THEN last ELSE nowT

\* lastTime = now
LastTimeAfterTick(last, nowT, isPaused) == nowT

\* What the environment saw of a tick: which driver fired, the wall time since
\* that driver's previous tick (or its start), and the game's flag and tunables
\* when it fired.
TickRecord(d, sc, wall, isPaused, f, m, before, prev) ==
    [driver |-> d, scene |-> sc, wall |-> wall, paused |-> isPaused, fps |-> f,
     maxFramesSkipped |-> m, elapsedBefore |-> before,
     prevDriver |-> prev.driver, prevPaused |-> prev.paused]

NoTick ==
    [driver |-> 0, scene |-> <<>>, wall |-> 0, paused |-> FALSE, fps |-> 0, maxFramesSkipped |-> 0,
     elapsedBefore |-> 0, prevDriver |-> 0, prevPaused |-> FALSE]

GameInit ==
    /\ scene \in SceneChoices
    /\ paused = FALSE
    /\ elapsed = 0
    /\ fps = DefaultFps
    /\ maxFramesSkipped = DefaultMaxFramesSkipped
    /\ now = 0
    /\ drivers = <<>>
    /\ tickLog = <<>>
    /\ lastTick = NoTick
    /\ tickedAt = <<>>
    /\ unpausedSum = 0
    /\ nTicks = 0

\* Game.start(): a new interval driver whose lastTime is the current time;
\* the model follows up to `most` drivers.
StartUpTo(most) ==
    /\ Len(drivers) < most
    /\ drivers' = Append(drivers, now)
    /\ tickedAt' = Append(tickedAt, now)
    /\ UNCHANGED <<scene, paused, elapsed, fps, maxFramesSkipped, now, tickLog,
                   lastTick, unpausedSum, nTicks>>
    /\ UNCHANGED <<spriteVars, keysVars, kbVars, physVars, camVars, ctorVars>>

\* The timer callback of driver d, run after dt ms more of wall clock.
Tick(d, dt) ==
    /\ nTicks < MaxTicks
    /\ LET nowT == now + dt
           maxDelta == MaxDelta(fps, maxFramesSkipped)
           delta == Clamp(nowT - drivers[d], maxDelta)
       IN /\ now' = nowT
          /\ drivers' = [drivers EXCEPT ![d] = LastTimeAfterTick(drivers[d], nowT, paused)]
          /\ elapsed' = ElapsedAfterTick(elapsed, paused, delta)
          /\ tickLog' = TickCalls(scene, paused, delta)
          /\ lastTick' = TickRecord(d, scene, nowT - tickedAt[d], paused, fps, maxFramesSkipped,
                                    elapsed, lastTick)
          /\ tickedAt' = [tickedAt EXCEPT ![d] = nowT]
          /\ unpausedSum' = IF paused THEN unpausedSum
                            ELSE unpausedSum
                                 + Min(nowT - tickedAt[d],
                                       (1000 \div fps) * maxFramesSkipped)
    /\ nTicks' = nTicks + 1
    /\ UNCHANGED <<scene, paused, fps, maxFramesSkipped>>
    /\ UNCHANGED <<spriteVars, keysVars, kbVars, physVars, camVars, ctorVars>>

Start == StartUpTo(MaxDrivers)

Pause ==
    /\ paused' = TRUE
    /\ UNCHANGED <<scene, elapsed, fps, maxFramesSkipped, now, drivers, tickLog,
                   lastTick, tickedAt, unpausedSum, nTicks>>
    /\ UNCHANGED <<spriteVars, keysVars, kbVars, physVars, camVars, ctorVars>>

Unpause ==
    /\ paused' = FALSE
    /\ UNCHANGED <<scene, elapsed, fps, maxFramesSkipped, now, drivers, tickLog,
                   lastTick, tickedAt, unpausedSum, nTicks>>
    /\ UNCHANGED <<spriteVars, keysVars, kbVars, physVars, camVars, ctorVars>>

TogglePause ==
    /\ paused' = ~paused
    /\ UNCHANGED <<scene, elapsed, fps, maxFramesSkipped, now, drivers, tickLog,
                   lastTick, tickedAt, unpausedSum, nTicks>>
    /\ UNCHANGED <<spriteVars, keysVars, kbVars, physVars, camVars, ctorVars>>

SetScene(sc) ==
    /\ scene' = sc
    /\ UNCHANGED <<paused, elapsed, fps, maxFramesSkipped, now, drivers, tickLog,
                   lastTick, tickedAt, unpausedSum, nTicks>>
    /\ UNCHANGED <<spriteVars, keysVars, kbVars, physVars, camVars, ctorVars>>

SetFps(f) ==
    /\ fps' = f
    /\ UNCHANGED <<scene, paused, elapsed, maxFramesSkipped, now, drivers, tickLog,
                   lastTick, tickedAt, unpausedSum, nTicks>>
    /\ UNCHANGED <<spriteVars, keysVars, kbVars, physVars, camVars, ctorVars>>

SetMaxFramesSkipped(m) ==
    /\ maxFramesSkipped' = m
    /\ UNCHANGED <<scene, paused, elapsed, fps, now, drivers, tickLog,
                   lastTick, tickedAt, unpausedSum, nTicks>>
    /\ UNCHANGED <<spriteVars, keysVars, kbVars, physVars, camVars, ctorVars>>

\* Calls of start() followed, and times at which the host may run a timer.
MaxStarts == 2

DriverSteps == {0, 10, 20}

\* The timer callback of driver d, which setInterval(f, 1000 / fps) runs no
\* sooner than one interval after the driver began or last ran.
DriverTick(d, dt) ==
    /\ (now + dt) - tickedAt[d] >= 1000 \div fps
    /\ Tick(d, dt)

DriversNext ==
    \/ StartUpTo(MaxStarts)
    \/ \E d \in 1..Len(drivers), dt \in DriverSteps : DriverTick(d, dt)
    \/ Pause
    \/ Unpause

GameNext ==
    \/ Start
    \/ \E d \in 1..Len(drivers), dt \in WallSteps : Tick(d, dt)
    \/ Pause
    \/ Unpause
    \/ TogglePause
    \/ \E sc \in SceneChoices : SetScene(sc)
    \/ \E f \in FpsChoices : SetFps(f)
    \/ \E m \in MaxFramesSkippedChoices : SetMaxFramesSkipped(m)

(***************************************************************************)
(* Keys (keys.ts): the held-key tracker.                                   *)
(*                                                                         *)
(* The keyboard is the environment: a physical key goes down and up, and   *)
(* the host reports each event under one of the names it has for that key. *)
(***************************************************************************)
PhysicalKeys == {"KeyA", "KeyUp"}

ReportedNames(phys) ==
    CASE phys = "KeyA" -> {"a", "A"}
      [] phys = "KeyUp" -> {"Up", "ArrowUp"}

KeyNames == UNION { ReportedNames(phys) : phys \in PhysicalKeys }

PhysicalKeyOf(name) == CHOOSE phys \in PhysicalKeys : name \in ReportedNames(phys)

Labels == {"fire", "jump"}

\* The ActionKeysMap arguments of actions(): label/keys entries in Object.keys order.
ActionKeysMaps ==
    { << [label |-> "fire", keys |-> <<"a">>], [label |-> "jump", keys |-> <<"Up">>] >>,
      << [label |-> "fire", keys |-> <<"a", "Up">>] >>,
      << [label |-> "fire", keys |-> <<"a">>],
         [label |-> "jump", keys |-> <<"a", "ArrowUp">>] >>,
      << [label |-> "jump", keys |-> <<"A">>] >> }

KeyLists == { <<"a">>, <<"Up", "ArrowUp">> }

EmptyMap == [k \in {} |-> ""]

Put(map, k, v) == [x \in (DOMAIN map) \cup {k} |-> IF x = k THEN v ELSE map[x]]

Range(seq) == { seq[i] : i \in DOMAIN seq }

\* The modifier flags of a keyboard event.
Modifiers(alt, ctrl, meta, shift) ==
    [altKey |-> alt, ctrlKey |-> ctrl, metaKey |-> meta, shiftKey |-> shift]

NoModifiers == Modifiers(FALSE, FALSE, FALSE, FALSE)

ModifierChoices ==
    { NoModifiers,
      Modifiers(TRUE, FALSE, FALSE, FALSE),
      Modifiers(FALSE, TRUE, FALSE, FALSE),
      Modifiers(FALSE, FALSE, TRUE, FALSE),
      Modifiers(FALSE, FALSE, FALSE, TRUE) }

\* The listeners the constructor registers on the target.
ListenerTypes == {"keydown", "keyup"}

addEventListener(registered, type) == registered \cup {type}

removeEventListener(registered, type) == registered \ {type}

KeysCallRecord(op, key, mod, delivered) ==
    [op |-> op, key |-> key, mod |-> mod, delivered |-> delivered,
     repeat |-> FALSE, crossAlias |-> FALSE]

\* A key event as the environment saw it: `repeat` says the key was already
\* held (an auto-repeat keydown), `crossAlias` that a keyup is reported under
\* another name than the keydown before it.
KeyEventRecord(op, key, mod, delivered, repeat, crossAlias) ==
    [KeysCallRecord(op, key, mod, delivered)
        EXCEPT !.repeat = repeat, !.crossAlias = crossAlias]

HandlerCall(op, handler, key) == [op |-> op, handler |-> handler, key |-> key]

toLowerCase(k) ==
    CASE k = "A" -> "a" [] k = "B" -> "b" [] OTHER -> k

toUpperCase(k) ==
    CASE k = "a" -> "A" [] k = "b" -> "B" [] OTHER -> k

SingleCharacterNames == {"a", "A", "b", "B", " ", "1"}

AddArrow(k) ==
    CASE k = "Up" -> "ArrowUp" [] k = "Down" -> "ArrowDown"
      [] k = "Left" -> "ArrowLeft" [] k = "Right" -> "ArrowRight"

DropArrow(k) ==
    CASE k = "ArrowUp" -> "Up" [] k = "ArrowDown" -> "Down"
      [] k = "ArrowLeft" -> "Left" [] k = "ArrowRight" -> "Right"

getKeysAsReported(key) == <<key>>

\* Keys.getKeys(e) for an event whose e.key is defined.
getKeys(key) ==
    IF key \in {" ", "Space", "Spacebar"} THEN <<" ", "Space", "Spacebar">>
    ELSE IF key \in {"Up", "Down", "Left", "Right"} THEN <<key, AddArrow(key)>>
    ELSE IF key \in {"ArrowUp", "ArrowDown", "ArrowLeft", "ArrowRight"}
         THEN <<DropArrow(key), key>>
    ELSE IF key \in {"Esc", "Escape"} THEN <<"Esc", "Escape">>
    ELSE IF key \in {"Del", "Delete"} THEN <<"Del", "Delete">>
    ELSE IF key \in SingleCharacterNames /\ toLowerCase(key) # toUpperCase(key)
         THEN <<toLowerCase(key), toUpperCase(key)>>
    ELSE <<key>>

\* Keys.connect(key, handler), the handler being the one that sets `label`.
connect(conns, key, label) == Put(conns, key, label)

RECURSIVE ConnectKeys(_, _, _)
\* keyList.forEach(a => this.connect(a, ...))
ConnectKeys(conns, keyList, label) ==
    IF keyList = <<>> THEN conns
    ELSE ConnectKeys(connect(conns, Head(keyList), label), Tail(keyList), label)

RECURSIVE ActionsResult(_, _)
\* Keys.actions(actions): the connections afterwards.
ActionsResult(conns, actions) ==
    IF actions = <<>> THEN conns
    ELSE ActionsResult(ConnectKeys(conns, Head(actions).keys, Head(actions).label),
                       Tail(actions))

RECURSIVE RegisterAll(_, _, _)
\* keys.forEach(k => { this.downs[k] = handler })
RegisterAll(map, keyList, handler) ==
    IF keyList = <<>> THEN map
    ELSE RegisterAll(Put(map, Head(keyList), handler), Tail(keyList), handler)

RECURSIVE HandlerCalls(_, _, _)
\* the handlers called by keys.forEach in handleKeyDown / handleKeyUp
HandlerCalls(op, map, ks) ==
    IF ks = <<>> THEN <<>>
    ELSE (IF Head(ks) \in DOMAIN map
          THEN <<HandlerCall(op, map[Head(ks)], Head(ks))>> ELSE <<>>)
         \o HandlerCalls(op, map, Tail(ks))

maybeContinueAlways(e) == <<HandlerCall("preventDefault", "", "")>>

\* Keys.maybeContinue(keys, e)
maybeContinue(e) ==
    IF ~(e.altKey \/ e.ctrlKey \/ e.metaKey) THEN <<HandlerCall("preventDefault", "", "")>> ELSE <<>>

\* Keys.pulse(): a fresh tracker, then the connection of every pressed key runs.
PulseResult(conns, held, previous) == { conns[k] : k \in held \cap DOMAIN conns }

KeysInit ==
    /\ connections = EmptyMap
    /\ downs = EmptyMap
    /\ ups = EmptyMap
    /\ keys = {}
    /\ actionTracker = Undefined
    /\ listening = addEventListener(addEventListener({}, "keydown"), "keyup")
    /\ keysLog = <<>>
    /\ keysCall = KeysCallRecord("new", "", NoModifiers, FALSE)
    /\ heldPhysical = {}
    /\ associations = {}
    /\ nRegistrations = 0

AssociationsOf(actions) ==
    UNION { { <<actions[i].label, k>> : k \in Range(actions[i].keys) } :
            i \in DOMAIN actions }

\* Keys.actions(actions)
Actions(actions) ==
    /\ nRegistrations < MaxRegistrations
    /\ nRegistrations' = nRegistrations + 1
    /\ connections' = ActionsResult(connections, actions)
    /\ associations' = associations \cup AssociationsOf(actions)
    /\ keysLog' = <<>>
    /\ keysCall' = KeysCallRecord("actions", "", NoModifiers, FALSE)
    /\ UNCHANGED <<downs, ups, keys, actionTracker, listening, heldPhysical>>
    /\ UNCHANGED <<spriteVars, gameVars, kbVars, physVars, camVars, ctorVars>>

\* Keys.onDown(key, handler)
OnDown(keyList, handler) ==
    /\ nRegistrations < MaxRegistrations
    /\ nRegistrations' = nRegistrations + 1
    /\ downs' = RegisterAll(downs, keyList, handler)
    /\ keysLog' = <<>>
    /\ keysCall' = KeysCallRecord("onDown", "", NoModifiers, FALSE)
    /\ UNCHANGED <<connections, ups, keys, actionTracker, listening, heldPhysical,
                   associations>>
    /\ UNCHANGED <<spriteVars, gameVars, kbVars, physVars, camVars, ctorVars>>

\* Keys.onUp(key, handler)
OnUp(keyList, handler) ==
    /\ nRegistrations < MaxRegistrations
    /\ nRegistrations' = nRegistrations + 1
    /\ ups' = RegisterAll(ups, keyList, handler)
    /\ keysLog' = <<>>
    /\ keysCall' = KeysCallRecord("onUp", "", NoModifiers, FALSE)
    /\ UNCHANGED <<connections, downs, keys, actionTracker, listening, heldPhysical,
                   associations>>
    /\ UNCHANGED <<spriteVars, gameVars, kbVars, physVars, camVars, ctorVars>>

\* A keydown event on the target (a first press or an auto-repeat), reported
\* as `name`; handleKeyDown runs if the listener is registered.
KeyDown(phys, name, mod) ==
    /\ name \in ReportedNames(phys)
    /\ heldPhysical' = heldPhysical \cup {phys}
    /\ IF "keydown" \in listening
       THEN /\ keys' = keys \cup Range(getKeys(name))
            /\ keysLog' = HandlerCalls("down", downs, getKeys(name)) \o maybeContinue(mod)
       ELSE /\ keys' = keys
            /\ keysLog' = <<>>
    /\ keysCall' = KeyEventRecord("keydown", name, mod, "keydown" \in listening,
                                  phys \in heldPhysical, FALSE)
    /\ UNCHANGED <<connections, downs, ups, actionTracker, listening, associations,
                   nRegistrations>>
    /\ UNCHANGED <<spriteVars, gameVars, kbVars, physVars, camVars, ctorVars>>

\* A keyup event on the target; handleKeyUp runs if the listener is registered.
KeyUp(phys, name, mod) ==
    /\ name \in ReportedNames(phys)
    /\ phys \in heldPhysical
    /\ heldPhysical' = heldPhysical \ {phys}
    /\ IF "keyup" \in listening
       THEN /\ keys' = keys \ Range(getKeys(name))
            /\ keysLog' = HandlerCalls("up", ups, getKeys(name)) \o maybeContinue(mod)
       ELSE /\ keys' = keys
            /\ keysLog' = <<>>
    /\ keysCall' = KeyEventRecord("keyup", name, mod, "keyup" \in listening, FALSE,
                                  /\ keysCall.op = "keydown"
                                  /\ keysCall.key # name
                                  /\ keysCall.key \in ReportedNames(phys))
    /\ UNCHANGED <<connections, downs, ups, actionTracker, listening, associations,
                   nRegistrations>>
    /\ UNCHANGED <<spriteVars, gameVars, kbVars, physVars, camVars, ctorVars>>

\* Keys.pulse()
Pulse ==
    /\ actionTracker' = Some(PulseResult(connections, keys, actionTracker))
    /\ keysLog' = <<>>
    /\ keysCall' = KeysCallRecord("pulse", "", NoModifiers, FALSE)
    /\ UNCHANGED <<connections, downs, ups, keys, listening, heldPhysical, associations,
                   nRegistrations>>
    /\ UNCHANGED <<spriteVars, gameVars, kbVars, physVars, camVars, ctorVars>>

ListenersAfterDestroyKeepKeyUp(registered) == removeEventListener(registered, "keydown")

\* destroy(): removeEventListener('keydown', ...), removeEventListener('keyup', ...)
ListenersAfterDestroy(registered) ==
    removeEventListener(removeEventListener(registered, "keydown"), "keyup")

\* Keys.destroy()
KeysDestroy ==
    /\ listening' = ListenersAfterDestroy(listening)
    /\ keysLog' = <<>>
    /\ keysCall' = KeysCallRecord("destroy", "", NoModifiers, FALSE)
    /\ UNCHANGED <<connections, downs, ups, keys, actionTracker, heldPhysical,
                   associations, nRegistrations>>
    /\ UNCHANGED <<spriteVars, gameVars, kbVars, physVars, camVars, ctorVars>>

KeysNext ==
    \/ \E actions \in ActionKeysMaps : Actions(actions)
    \/ \E keyList \in KeyLists : OnDown(keyList, "onDownHandler")
    \/ \E keyList \in KeyLists : OnUp(keyList, "onUpHandler")
    \/ \E phys \in PhysicalKeys, name \in KeyNames, mod \in ModifierChoices : KeyDown(phys, name, mod)
    \/ \E phys \in PhysicalKeys, name \in KeyNames, mod \in ModifierChoices : KeyUp(phys, name, mod)
    \/ Pulse
    \/ KeysDestroy

KeysIdle == KeysInit

(***************************************************************************)
(* Key behaviours: HandleKeys, OnKey, RotateKeys and ThrustKeys each own a  *)
(* Keys tracker on the window; SpeedRamp owns five sub-behaviours.  Angles  *)
(* are counted in quarter turns, so that 2*PI is FullTurn.                  *)
(***************************************************************************)
FullTurn == 4

Cos(q) == CASE q % 4 = 0 -> 1 [] q % 4 = 1 -> 0 [] q % 4 = 2 -> -1 [] q % 4 = 3 -> 0

Sin(q) == CASE q % 4 = 0 -> 0 [] q % 4 = 1 -> 1 [] q % 4 = 2 -> 0 [] q % 4 = 3 -> -1

\* DerivablePoint.rotated(r)
rotated(p, r) ==
    point(p.x * Cos(r) + p.y * (0 - Sin(r)), p.x * Sin(r) + p.y * Cos(r))

\* JavaScript's %: the result has the sign of the dividend.
JsRemainder(a, b) == IF a >= 0 THEN a % b ELSE 0 - ((0 - a) % b)

(***************************************************************************)
(* Movement behaviours on the polar form of a velocity (behavior.ts,       *)
(* space-time.ts).  The model works in exact arithmetic on the vectors     *)
(* that lie along an axis, whose direction is a whole number of quarter    *)
(* turns and whose magnitude is an integer; the rounding of Math.cos,      *)
(* Math.sin and Math.atan2 in IEEE doubles is outside the model.           *)
(***************************************************************************)
Abs(n) == IF n < 0 THEN 0 - n ELSE n

\* Math.sqrt on the perfect squares the model produces.
Isqrt(n) == CHOOSE r \in 0..n : r * r <= n /\ n < (r + 1) * (r + 1)

\* Math.atan2(y, x), in quarter turns, on the axes; atan2(0, 0) is 0.
Atan2(y, x) ==
    CASE y = 0 /\ x >= 0 -> 0
      [] x = 0 /\ y > 0 -> 1
      [] y = 0 /\ x < 0 -> 2
      [] x = 0 /\ y < 0 -> 0 - 1

\* DerivablePoint.distFrom(), from the origin.
distFrom(p) == Isqrt(p.x * p.x + p.y * p.y)

\* DerivablePoint.diff(other)
diff(p, other) == point(p.x - other.x, p.y - other.y)

\* DerivablePoint.asDirMag()
asDirMag(p) == [dir |-> Atan2(p.y, p.x), mag |-> distFrom(p)]

\* veloc(dm): the constructor of DerivablePoint given a DirMag.
veloc(dm) == point(dm.mag * Cos(dm.dir), dm.mag * Sin(dm.dir))

\* Friction that always subtracts, without the branch that stops the sprite.
FrictionNeverStops(sp, strength, delta) ==
    LET dirMag == asDirMag(sp.vel)
        adjFric == (strength * delta) \div 1000
    IN  [sp EXCEPT !.vel = veloc([dirMag EXCEPT !.mag = dirMag.mag - adjFric])]

\* FrictionClass.update(delta)
FrictionUpdate(sp, strength, delta) ==
    LET dirMag == asDirMag(sp.vel)
        adjFric == (strength * delta) \div 1000
    IN  IF adjFric >= dirMag.mag
        THEN [sp EXCEPT !.vel = point(0, 0)]
        ELSE [sp EXCEPT !.vel = veloc([dirMag EXCEPT !.mag = dirMag.mag - adjFric])]

\* A speed limit that sets the magnitude to the limit whatever it was.
SpeedLimitedAlwaysAtLimit(sp, limit) ==
    LET dm == asDirMag(sp.vel)
    IN  [sp EXCEPT !.vel = veloc([dm EXCEPT !.mag = limit])]

\* SpeedLimitedClass.update(delta)
SpeedLimitedUpdate(sp, limit) ==
    LET dm == asDirMag(sp.vel)
    IN  [sp EXCEPT !.vel =
            veloc(IF dm.mag > limit THEN [dm EXCEPT !.mag = limit] ELSE dm)]

\* clampRadians(dir): dir brought between 0 and a full turn.
clampRadians(dir) ==
    IF dir < 0 THEN FullTurn - JsRemainder(0 - dir, FullTurn)
    ELSE JsRemainder(dir, FullTurn)

\* getVal(loc): the value, or the result of calling loc when it is a function.
getVal(loc) == loc

\* A RotateTowardPlusClass with its constructor arguments.
RotateTowardPlusClass(loc, addRot, rotSpeed) ==
    [loc |-> loc, addRot |-> addRot, rotSpeed |-> rotSpeed]

\* The default of rotSpeed, 2 * Math.PI.
DefaultRotSpeed == FullTurn

RotateToward(loc, rotSpeed) == RotateTowardPlusClass(loc, 0, rotSpeed)

RotateTowardPlus(loc, addRot, rotSpeed) == RotateTowardPlusClass(loc, addRot, rotSpeed)

RotateAwayFrom(loc, rotSpeed) == RotateTowardPlusClass(loc, FullTurn \div 2, rotSpeed)

\* The rotation taken the way clampRadians gives it, the long way included.
RotateTowardLongWay(sp, this, delta) ==
    LET dest == getVal(this.loc)
    IN  IF ~IsDefined(dest) THEN sp
        ELSE LET dm == asDirMag(diff(sp.pos, Val(dest)))
                 desiredDir == dm.dir - FullTurn \div 4 + this.addRot
                 maxRot == (this.rotSpeed * delta) \div 1000
                 desiredRot == clampRadians(desiredDir - sp.rotation)
             IN  [sp EXCEPT !.rotation =
                      sp.rotation + (IF desiredRot # 0 /\ maxRot < Abs(desiredRot)
                                     THEN (desiredRot * maxRot) \div Abs(desiredRot)
                                     ELSE desiredRot)]

\* A turn of maxRot at every update, not cut down to the rotation wanted.
RotateTowardFullStep(sp, this, delta) ==
    LET dest == getVal(this.loc)
    IN  IF ~IsDefined(dest) THEN sp
        ELSE LET dm == asDirMag(diff(sp.pos, Val(dest)))
                 desiredDir == dm.dir - FullTurn \div 4 + this.addRot
                 maxRot == (this.rotSpeed * delta) \div 1000
                 clamped == clampRadians(desiredDir - sp.rotation)
                 desiredRot == IF clamped > FullTurn \div 2 THEN clamped - FullTurn
                               ELSE clamped
             IN  [sp EXCEPT !.rotation =
                      sp.rotation + (IF desiredRot = 0 THEN 0
                                     ELSE IF desiredRot < 0 THEN 0 - maxRot ELSE maxRot)]

\* RotateTowardPlusClass.update(delta).  scaleDown = maxRot / |desiredRot| is
\* under 1 exactly when desiredRot is not 0 and maxRot < |desiredRot|, and
\* desiredRot * scaleDown is then desiredRot * maxRot / |desiredRot|.
RotateTowardPlusUpdate(sp, this, delta) ==
    LET dest == getVal(this.loc)
    IN  IF ~IsDefined(dest) THEN sp
        ELSE LET dm == asDirMag(diff(sp.pos, Val(dest)))
                 desiredDir == dm.dir - FullTurn \div 4 + this.addRot
                 maxRot == (this.rotSpeed * delta) \div 1000
                 clamped == clampRadians(desiredDir - sp.rotation)
                 desiredRot == IF clamped > FullTurn \div 2 THEN clamped - FullTurn
                               ELSE clamped
             IN  [sp EXCEPT !.rotation =
                      sp.rotation + (IF desiredRot # 0 /\ maxRot < Abs(desiredRot)
                                     THEN (desiredRot * maxRot) \div Abs(desiredRot)
                                     ELSE desiredRot)]

\* A Rect is a TLBR record or an XYWH record (shape.ts).
TLBR(t, l, b, r) == [t |-> t, l |-> l, b |-> b, r |-> r]

XYWH(x, y, w, h) == [x |-> x, y |-> y, w |-> w, h |-> h]

\* getTLBR(arg)
getTLBR(arg) ==
    IF {"t", "l", "b", "r"} \subseteq DOMAIN arg THEN arg
    ELSE [l |-> arg.x, t |-> arg.y, r |-> arg.x + arg.w, b |-> arg.y + arg.h]

\* A DynamicRect: a Rect, or a function of (game, sprite) that returns `rect`.
DynamicRect(isFunction, rect) == [isFunction |-> isFunction, rect |-> rect]

\* getRect(rect, game, sprite)
getRect(drect) == drect.rect

\* shrinkRect(arect, brect)
shrinkRect(arect, brect) ==
    LET aR == getTLBR(arect)
        bR == getTLBR(brect)
    IN  [t |-> aR.t - bR.t, l |-> aR.l - bR.l, b |-> aR.b - bR.b, r |-> aR.r - bR.r]

\* exceedsBounds(pt, rect)
exceedsBounds(pt, rect) ==
    LET tlbr == getTLBR(rect)
    IN  [x |-> IF pt.x < tlbr.l THEN pt.x - tlbr.l
               ELSE IF pt.x > tlbr.r THEN pt.x - tlbr.r ELSE 0,
         y |-> IF pt.y < tlbr.t THEN pt.y - tlbr.t
               ELSE IF pt.y > tlbr.b THEN pt.y - tlbr.b ELSE 0]

\* testExceed(e)
testExceed(e) == e.x # 0 \/ e.y # 0

\* body.None's bounds, and the bounds of a body.Circle of radius r.
NoneBounds == XYWH(0, 0, 0, 0)

CircleBounds(r) == TLBR(0 - r, 0 - r, r, r)

\* The `this` of a call of Bounded(drect, cb), which its arrow function
\* captures: undefined for a bare call, the object the function was taken
\* from for a call b.Bounded(...).  Neither is a behaviour: there is no
\* sprite, game, drect or cb on it.
BoundedThisChoices ==
    { Undefined,
      Some([sprite |-> Undefined, game |-> Undefined, drect |-> Undefined,
            cb |-> Undefined]) }

\* Bounded's updateFn.  Reading this.sprite.body throws a TypeError when
\* `this` or this.sprite is undefined, and getTLBR(undefined) throws when
\* this.drect is; the callback is this.cb.
BoundedUpdateFn(this, delta) ==
    IF ~IsDefined(this) \/ ~IsDefined(Val(this).sprite) \/ ~IsDefined(Val(this).drect)
       \/ ~IsDefined(Val(this).cb)
    THEN [log |-> <<>>, threw |-> TRUE]
    ELSE LET sp == Val(Val(this).sprite)
             bodyBB == sp.body.bounds
             rect == shrinkRect(getRect(Val(Val(this).drect)), bodyBB)
             exceed == exceedsBounds(sp.pos, rect)
         IN  [log |-> IF testExceed(exceed)
                      THEN <<[op |-> "cb", sprite |-> sp.pos, bounds |-> rect,
                              exceed |-> exceed]>>
                      ELSE <<>>,
              threw |-> FALSE]

\* An ActionKeysHandlerMap entry: keys, and an optional handler and token.
HandlerEntry(keyList, handler, token) ==
    [keys |-> keyList, handler |-> handler, token |-> token]

\* A KeyHandlerSpec: optional keyUp, keyDown, fire and token.
KeyHandlerSpec(keyUp, keyDown, fire, token) ==
    [keyUp |-> keyUp, keyDown |-> keyDown, fire |-> fire, token |-> token]

NoSpec == KeyHandlerSpec(Undefined, Undefined, Undefined, Undefined)

\* A behaviour factory with its arguments.
KeyBehaviorFactory(kind, entries, spec, strength, actions) ==
    [kind |-> kind, entries |-> entries, spec |-> spec, strength |-> strength,
     actions |-> actions, friction |-> 0, limit |-> 0]

HandleKeys(entries) == KeyBehaviorFactory("HandleKeys", entries, NoSpec, 0, <<>>)

OnKey(spec) == KeyBehaviorFactory("OnKey", <<>>, spec, 0, <<>>)

RotateKeys(strength, actions) ==
    KeyBehaviorFactory("RotateKeys", <<>>, NoSpec, strength, actions)

ThrustKeys(actions) == KeyBehaviorFactory("ThrustKeys", <<>>, NoSpec, 0, actions)

\* SpeedRamp(maxSpeed, rampUp, rampDown), by what SpeedRampClass's constructor
\* computes: friction = maxSpeed / rampDown for Friction, thrust = maxSpeed /
\* rampUp + friction for Thrust, and maxSpeed for SpeedLimited.
SpeedRamp(maxSpeed, rampUp, rampDown) ==
    [KeyBehaviorFactory("SpeedRamp", <<>>, NoSpec,
                        maxSpeed \div rampUp + maxSpeed \div rampDown, <<>>)
        EXCEPT !.friction = maxSpeed \div rampDown, !.limit = maxSpeed]

\* Momentum, the factory made by makeBehavior.
Momentum == KeyBehaviorFactory("Momentum", <<>>, NoSpec, 0, <<>>)

KeyBehaviorFactories ==
    { HandleKeys(<< HandlerEntry(<<"a">>, Some("onA"), Undefined),
                    HandlerEntry(<<"a", "Up">>, Undefined, Some("token")),
                    HandlerEntry(<<"ArrowUp">>, Undefined, Undefined) >>),
      OnKey(KeyHandlerSpec(Undefined, Some(<<"Up", "ArrowUp">>), Some("fire"), Undefined)),
      OnKey(KeyHandlerSpec(Some(<<"a">>), Undefined, Undefined, Some("token"))),
      OnKey(KeyHandlerSpec(Undefined, Some(<<"a">>), Undefined, Undefined)),
      SpeedRamp(4, 2, 4),
      Momentum }

KeyBehaviorLists ==
    UNION { [1..n -> KeyBehaviorFactories] : n \in 0..MaxKeyBehaviors }

KeyKinds == {"HandleKeys", "OnKey", "RotateKeys", "ThrustKeys"}

\* The behaviours SpeedRampClass's constructor pushes, in order.
SpeedRampParts == <<"Thrust", "Acceleration", "Friction", "SpeedLimited", "Momentum">>

\* A call made by a behaviour: by the instance at position `inst`, for its map
\* entry or sub-behaviour `entry` (0 if none), with `what` and, if any, a delta.
KbCallRecord(op, inst, entry, what, delta) ==
    [op |-> op, inst |-> inst, entry |-> entry, what |-> what, delta |-> delta]

\* new Keys, made by the behaviour at position `owner`.
NewKeys(owner) ==
    [owner |-> owner, connections |-> EmptyMap, downs |-> EmptyMap, ups |-> EmptyMap,
     keys |-> {}, actionTracker |-> Undefined]

\* The constructor's two addEventListener calls, for the tracker `id`.
Listen(win, id) ==
    win \o << [tracker |-> id, type |-> "keydown"], [tracker |-> id, type |-> "keyup"] >>

\* The ActionKeysMap a HandleKeys constructor builds: entry i under the label i.
AdjustedKeys(entries) ==
    [i \in DOMAIN entries |-> [label |-> i - 1, keys |-> entries[i].keys]]

\* The tracker a behaviour's constructor leaves behind.
ConstructKeys(owner, f) ==
    LET mk == NewKeys(owner)
    IN CASE f.kind = "HandleKeys" ->
              [mk EXCEPT !.connections = ActionsResult(EmptyMap, AdjustedKeys(f.entries))]
         [] f.kind \in {"RotateKeys", "ThrustKeys"} ->
              [mk EXCEPT !.connections = ActionsResult(EmptyMap, f.actions)]
         [] f.kind = "OnKey" ->
              LET withUp == IF IsDefined(f.spec.keyUp)
                            THEN [mk EXCEPT !.ups = RegisterAll(EmptyMap,
                                                                Val(f.spec.keyUp), owner)]
                            ELSE mk
              IN IF IsDefined(f.spec.keyDown)
                 THEN [withUp EXCEPT !.downs = RegisterAll(EmptyMap,
                                                           Val(f.spec.keyDown), owner)]
                 ELSE withUp

\* x(this.game, this): the instance a factory returns, its tracker being `id`.
KeyBehaviorInstance(idx, f, id) ==
    [idx |-> idx, factory |-> f, kind |-> f.kind, tracker |-> id,
     subs |-> IF f.kind = "SpeedRamp" THEN SpeedRampParts ELSE <<>>]

RECURSIVE KbMaterialize(_, _, _, _, _)
\* this.behaviors.map(x => x(this.game, this)): instances, trackers and listeners.
KbMaterialize(factories, i, insts, trks, win) ==
    IF i > Len(factories) THEN [insts |-> insts, trackers |-> trks, window |-> win]
    ELSE LET f == factories[i]
         IN IF f.kind \in KeyKinds
            THEN KbMaterialize(factories, i + 1,
                               Append(insts, KeyBehaviorInstance(i, f, Len(trks) + 1)),
                               Append(trks, ConstructKeys(i, f)),
                               Listen(win, Len(trks) + 1))
            ELSE KbMaterialize(factories, i + 1,
                               Append(insts, KeyBehaviorInstance(i, f, 0)), trks, win)

\* The `this` that the arrow functions handed to makeBehavior capture: the
\* module's, which is not a behaviour and has no `sprite`.
ModuleThis == [sprite |-> Undefined]

\* Momentum's updateFn, this.sprite.pos = this.sprite.pos.advanced(...): it
\* throws a TypeError when this.sprite is undefined.
MomentumUpdateFn(this, delta) ==
    IF IsDefined(this.sprite)
    THEN [this |-> [this EXCEPT !.sprite = Some(MomentumUpdate(Val(this.sprite), delta))],
          threw |-> FALSE]
    ELSE [this |-> this, threw |-> TRUE]

\* Acceleration's updateFn, likewise on this.sprite.vel.
AccelerationUpdateFn(this, delta) ==
    IF IsDefined(this.sprite)
    THEN [this |-> [this EXCEPT !.sprite = Some(AccelerationUpdate(Val(this.sprite), delta))],
          threw |-> FALSE]
    ELSE [this |-> this, threw |-> TRUE]

\* BehaviorBase.update(delta) of a behaviour made by makeBehavior: this.updateFn(delta).
BehaviorBaseUpdate(kind, delta) ==
    IF kind = "Momentum" THEN MomentumUpdateFn(ModuleThis, delta)
    ELSE AccelerationUpdateFn(ModuleThis, delta)

\* eventFiringKeyHandler(token)(game, sprite, delta)
eventFiringKeyHandlerAlways(inst, entry, token, delta) ==
    <<KbCallRecord("handleEvent", inst, entry,
                   IF IsDefined(token) THEN Val(token) ELSE "undefined", delta)>>

eventFiringKeyHandler(inst, entry, token, delta) ==
    IF IsDefined(token)
    THEN <<KbCallRecord("handleEvent", inst, entry, Val(token), delta)>>
    ELSE <<>>

\* The closure OnKeyClass registers with onDown / onUp, for the spec `spec`.
OnKeyHandler(inst, spec, isPaused) ==
    IF isPaused THEN <<>>
    ELSE IF IsDefined(spec.fire)
         THEN <<KbCallRecord("fire", inst, 0, Val(spec.fire), 0)>>
         ELSE IF IsDefined(spec.token)
              THEN eventFiringKeyHandler(inst, 0, spec.token, 0)
              ELSE <<>>

RECURSIVE OnKeyHandlerCalls(_, _, _, _)
\* keys.forEach(k => { if (map[k] !== undefined) (map[k])(ev) })
OnKeyHandlerCalls(map, ks, factories, isPaused) ==
    IF ks = <<>> THEN <<>>
    ELSE (IF Head(ks) \in DOMAIN map
          THEN OnKeyHandler(map[Head(ks)], factories[map[Head(ks)]].spec, isPaused)
          ELSE <<>>)
         \o OnKeyHandlerCalls(map, Tail(ks), factories, isPaused)

\* A tracker that leaves its set of held keys alone while the game is paused.
HandleKeyEventUnlessPaused(t, type, name, mod, factories, isPaused) ==
    [tracker |-> [t EXCEPT !.keys = IF isPaused THEN t.keys
                                    ELSE IF type = "keydown"
                                         THEN t.keys \cup Range(getKeys(name))
                                         ELSE t.keys \ Range(getKeys(name))],
     log |-> OnKeyHandlerCalls(IF type = "keydown" THEN t.downs ELSE t.ups,
                               getKeys(name), factories, isPaused)
             \o (IF maybeContinue(mod) # <<>>
                 THEN <<KbCallRecord("preventDefault", t.owner, 0, "", 0)>> ELSE <<>>)]

\* handleKeyDown / handleKeyUp of the tracker t.
HandleKeyEvent(t, type, name, mod, factories, isPaused) ==
    [tracker |-> [t EXCEPT !.keys = IF type = "keydown"
                                    THEN t.keys \cup Range(getKeys(name))
                                    ELSE t.keys \ Range(getKeys(name))],
     log |-> OnKeyHandlerCalls(IF type = "keydown" THEN t.downs ELSE t.ups,
                               getKeys(name), factories, isPaused)
             \o (IF maybeContinue(mod) # <<>>
                 THEN <<KbCallRecord("preventDefault", t.owner, 0, "", 0)>> ELSE <<>>)]

RECURSIVE DispatchFrom(_, _, _, _, _, _, _)
\* The target calls the listeners registered for the event type, in order.
DispatchFrom(trks, win, type, name, mod, factories, isPaused) ==
    IF win = <<>> THEN [trackers |-> trks, log |-> <<>>]
    ELSE IF Head(win).type # type
         THEN DispatchFrom(trks, Tail(win), type, name, mod, factories, isPaused)
         ELSE LET id == Head(win).tracker
                  r == HandleKeyEvent(trks[id], type, name, mod, factories, isPaused)
                  rest == DispatchFrom([trks EXCEPT ![id] = r.tracker], Tail(win), type,
                                       name, mod, factories, isPaused)
              IN [trackers |-> rest.trackers, log |-> r.log \o rest.log]

DispatchToFirstOnly(trks, win, type, name, mod, factories, isPaused) ==
    LET Matches(l) == l.type = type
        first == SelectSeq(win, Matches)
    IN DispatchFrom(trks, IF first = <<>> THEN <<>> ELSE <<Head(first)>>, type, name,
                    mod, factories, isPaused)

Dispatch(trks, win, type, name, mod, factories, isPaused) ==
    DispatchFrom(trks, win, type, name, mod, factories, isPaused)

RECURSIVE HandleKeysCalls(_, _, _, _)
\* HandleKeysClass.update: the map entries of the pulsed labels, by label.
HandleKeysCalls(inst, labels, i, delta) ==
    IF i > Len(inst.factory.entries) THEN <<>>
    ELSE LET entry == inst.factory.entries[i]
         IN (IF (i - 1) \in labels
             THEN IF IsDefined(entry.handler)
                  THEN <<KbCallRecord("handler", inst.idx, i, Val(entry.handler), delta)>>
                  ELSE eventFiringKeyHandler(inst.idx, i, entry.token, delta)
             ELSE <<>>)
            \o HandleKeysCalls(inst, labels, i + 1, delta)

\* ThrustKeysClass.sideToAccel, in Object.keys order.
Sides == <<"forward", "back", "left", "right">>

sideToAccel(side) ==
    CASE side = "forward" -> point(1, 0) [] side = "back" -> point(-1, 0)
      [] side = "left" -> point(0, -1) [] side = "right" -> point(0, 1)

RECURSIVE ThrustFirstHeld(_, _)
\* The unit vector of the first held side alone, the others not added.
ThrustFirstHeld(labels, i) ==
    IF i > Len(Sides) THEN point(0, 0)
    ELSE IF Sides[i] \in labels THEN sideToAccel(Sides[i])
         ELSE ThrustFirstHeld(labels, i + 1)

RECURSIVE ThrustSum(_, _)
\* ThrustKeysClass.update: the sum of sideToAccel over the held sides.
ThrustSum(labels, i) ==
    IF i > Len(Sides) THEN point(0, 0)
    ELSE LET rest == ThrustSum(labels, i + 1)
             a == IF Sides[i] \in labels THEN sideToAccel(Sides[i]) ELSE point(0, 0)
         IN point(a.x + rest.x, a.y + rest.y)

\* The rotation reduced by % alone, a negative remainder left as it is.
RotateKeysRemainderOnly(r, strength, labels, delta) ==
    LET step == (strength * delta) \div 1000
        clock == IF "clock" \in labels THEN r + step ELSE r
        counter == IF "counter" \in labels THEN clock - step ELSE clock
    IN JsRemainder(counter, FullTurn)

\* RotateKeysClass.update, on the rotation r with the pulsed labels.
RotateKeysRotation(r, strength, labels, delta) ==
    LET step == (strength * delta) \div 1000
        clock == IF "clock" \in labels THEN r + step ELSE r
        counter == IF "counter" \in labels THEN clock - step ELSE clock
        rem == JsRemainder(counter, FullTurn)
    IN IF rem < 0 THEN rem + FullTurn ELSE rem

\* b.update(delta) of the sub-behaviour j of a SpeedRamp.
SpeedRampPartUpdate(f, j, sp, delta) ==
    CASE SpeedRampParts[j] = "Thrust" ->
              [sprite |-> ThrustUpdate(sp, f.strength), threw |-> FALSE]
      [] SpeedRampParts[j] = "Acceleration" ->
              [sprite |-> sp, threw |-> BehaviorBaseUpdate("Acceleration", delta).threw]
      [] SpeedRampParts[j] = "Friction" ->
              [sprite |-> FrictionUpdate(sp, f.friction, delta), threw |-> FALSE]
      [] SpeedRampParts[j] = "SpeedLimited" ->
              [sprite |-> SpeedLimitedUpdate(sp, f.limit), threw |-> FALSE]
      [] SpeedRampParts[j] = "Momentum" ->
              [sprite |-> sp, threw |-> BehaviorBaseUpdate("Momentum", delta).threw]

RECURSIVE SpeedRampUpdate(_, _, _, _)
\* SpeedRampClass.update: this.behaviorsInst.forEach(b => b.update(delta)), up
\* to the first exception.
SpeedRampUpdate(inst, j, sp, delta) ==
    IF j > Len(inst.subs) THEN [sprite |-> sp, threw |-> FALSE, log |-> <<>>]
    ELSE LET r == SpeedRampPartUpdate(inst.factory, j, sp, delta)
             call == <<KbCallRecord("subUpdate", inst.idx, j, inst.subs[j], delta)>>
         IN IF r.threw THEN [sprite |-> r.sprite, threw |-> TRUE, log |-> call]
            ELSE LET rest == SpeedRampUpdate(inst, j + 1, r.sprite, delta)
                 IN [rest EXCEPT !.log = call \o rest.log]

\* x.update(delta) of one instantiated behaviour.
KbBehaviorUpdate(inst, sp, trks, delta) ==
    LET t == IF inst.tracker = 0 THEN NewKeys(0) ELSE trks[inst.tracker]
        labels == PulseResult(t.connections, t.keys, t.actionTracker)
        pulsed == IF inst.tracker = 0 THEN trks
                  ELSE [trks EXCEPT ![inst.tracker].actionTracker = Some(labels)]
    IN CASE inst.kind = "HandleKeys" ->
              [sprite |-> sp, trackers |-> pulsed, threw |-> FALSE,
               log |-> HandleKeysCalls(inst, labels, 1, delta)]
         [] inst.kind = "OnKey" ->
              [sprite |-> sp, trackers |-> trks, threw |-> FALSE, log |-> <<>>]
         [] inst.kind = "RotateKeys" ->
              [sprite |-> [sp EXCEPT !.rotation =
                              RotateKeysRotation(sp.rotation, inst.factory.strength,
                                                 labels, delta)],
               trackers |-> pulsed, threw |-> FALSE, log |-> <<>>]
         [] inst.kind = "ThrustKeys" ->
              [sprite |-> [sp EXCEPT !.accel = rotated(ThrustSum(labels, 1), sp.rotation)],
               trackers |-> pulsed, threw |-> FALSE, log |-> <<>>]
         [] inst.kind = "SpeedRamp" ->
              LET ran == SpeedRampUpdate(inst, 1, sp, delta)
              IN [sprite |-> ran.sprite, trackers |-> trks, threw |-> ran.threw,
                  log |-> ran.log]
         [] inst.kind = "Momentum" ->
              [sprite |-> sp, trackers |-> trks,
               threw |-> BehaviorBaseUpdate("Momentum", delta).threw,
               log |-> <<KbCallRecord("subUpdate", inst.idx, 0, "Momentum", delta)>>]

RECURSIVE KbRunBehaviors(_, _, _, _, _)
\* this.behaviorsInst.forEach(x => x.update(delta)), up to the first exception.
KbRunBehaviors(insts, i, sp, trks, delta) ==
    IF i > Len(insts) THEN [sprite |-> sp, trackers |-> trks, log |-> <<>>, threw |-> FALSE]
    ELSE LET r == KbBehaviorUpdate(insts[i], sp, trks, delta)
         IN IF r.threw THEN r
            ELSE LET rest == KbRunBehaviors(insts, i + 1, r.sprite, r.trackers, delta)
                 IN [rest EXCEPT !.log = r.log \o rest.log]

\* Sprite.update(delta) on the sprite of this component.
KbUpdateResult(sp, trks, win, delta) ==
    LET entered == [sp EXCEPT !.lastPos = EntryLastPos(sp)]
        made == IF IsDefined(sp.behaviors)
                THEN KbMaterialize(Val(sp.behaviors), 1, <<>>, trks, win)
                ELSE [insts |-> Val(sp.behaviorsInst), trackers |-> trks, window |-> win]
        ready == [entered EXCEPT !.behaviors = Undefined, !.behaviorsInst = Some(made.insts)]
        ran == KbRunBehaviors(made.insts, 1, ready, made.trackers, delta)
    IN [sprite |-> ran.sprite, trackers |-> ran.trackers, window |-> made.window,
        log |-> ran.log, threw |-> ran.threw]

\* removeEventListener(type, handler) for the handler of the tracker `id`.
RemoveListener(win, id, type) ==
    LET Keep(l) == ~(l.tracker = id /\ l.type = type)
    IN SelectSeq(win, Keep)

UnlistenKeyDownOnly(win, id) == RemoveListener(win, id, "keydown")

\* Keys.destroy() of the tracker `id`: both listeners leave the target.
Unlisten(win, id) == RemoveListener(RemoveListener(win, id, "keydown"), id, "keyup")

RECURSIVE SubDestroys(_, _)
\* SpeedRampClass.destroy: pops its sub-behaviours and destroys each.
SubDestroys(inst, j) ==
    IF j = 0 THEN <<>>
    ELSE <<KbCallRecord("destroy", inst.idx, j, inst.subs[j], 0)>> \o SubDestroys(inst, j - 1)

\* b.destroy() of one instantiated behaviour; every behaviour here has a destroy.
DestroyBehavior(inst, win) ==
    [window |-> IF inst.tracker = 0 THEN win ELSE Unlisten(win, inst.tracker),
     log |-> <<KbCallRecord("destroy", inst.idx, 0, inst.kind, 0)>>
             \o SubDestroys(inst, Len(inst.subs))]

RECURSIVE KbDestroyFrom(_, _)
\* while (bs.length > 0) { b = bs.pop(); if (isDestroyable(b)) b.destroy() }
KbDestroyFrom(insts, win) ==
    IF insts = <<>> THEN [window |-> win, log |-> <<>>]
    ELSE LET r == DestroyBehavior(insts[Len(insts)], win)
             rest == KbDestroyFrom(SubSeq(insts, 1, Len(insts) - 1), r.window)
         IN [window |-> rest.window, log |-> r.log \o rest.log]

\* Sprite.destroy() on the sprite of this component.
KbDestroyResult(sp, win) ==
    IF ~IsDefined(sp.behaviorsInst)
    THEN [sprite |-> sp, window |-> win, log |-> <<>>, threw |-> TRUE]
    ELSE LET r == KbDestroyFrom(Val(sp.behaviorsInst), win)
         IN [sprite |-> [sp EXCEPT !.behaviorsInst = Some(<<>>)], window |-> r.window,
             log |-> r.log, threw |-> FALSE]

\* The most recent call or event, with game.paused as it was then.
KbOperation(op, key, mod, delta, threw, isPaused, repeat) ==
    [op |-> op, key |-> key, mod |-> mod, delta |-> delta, threw |-> threw,
     paused |-> isPaused, repeat |-> repeat]

KbDeltaChoices == {500, 1000}

\* A sprite built with the behaviours bl, and vel, accel and rotation assigned.
KbInitSprite(bl, v, a, r) ==
    /\ kbSprite = [NewSprite(bl, v, a) EXCEPT !.rotation = r]
    /\ kbEntry = Kinematics([NewSprite(bl, v, a) EXCEPT !.rotation = r])
    /\ kbDeclared = bl
    /\ window = <<>>
    /\ trackers = <<>>
    /\ kbHeld = {}
    /\ kbLog = <<>>
    /\ kbCall = KbOperation("new", "", NoModifiers, 0, FALSE, FALSE, FALSE)
    /\ kbDestroyed = FALSE

KbInitWith(bl) == KbInitSprite(bl, point(10, 0), point(0, 0), 0)

KbInit == \E bl \in KeyBehaviorLists : KbInitWith(bl)

KbIdle == KbInitWith(<<>>)

\* sprite.update(delta)
KbUpdate(delta) ==
    /\ \E r \in {KbUpdateResult(kbSprite, trackers, window, delta)} :
          /\ kbSprite' = r.sprite
          /\ trackers' = r.trackers
          /\ window' = r.window
          /\ kbLog' = r.log
          /\ kbCall' = KbOperation("update", "", NoModifiers, delta, r.threw, paused, FALSE)
    /\ kbEntry' = Kinematics(kbSprite)
    /\ UNCHANGED <<kbHeld, kbDeclared, kbDestroyed>>
    /\ UNCHANGED <<spriteVars, gameVars, keysVars, physVars, camVars, ctorVars>>

\* sprite.destroy()
KbDestroy ==
    /\ LET r == KbDestroyResult(kbSprite, window)
       IN /\ kbSprite' = r.sprite
          /\ window' = r.window
          /\ kbLog' = r.log
          /\ kbCall' = KbOperation("destroy", "", NoModifiers, 0, r.threw, paused, FALSE)
          /\ kbDestroyed' = (kbDestroyed \/ ~r.threw)
    /\ kbEntry' = Kinematics(kbSprite)
    /\ UNCHANGED <<trackers, kbHeld, kbDeclared>>
    /\ UNCHANGED <<spriteVars, gameVars, keysVars, physVars, camVars, ctorVars>>

\* A keydown event on the window (a first press or an auto-repeat).
KbKeyDown(phys, name, mod) ==
    /\ name \in ReportedNames(phys)
    /\ kbHeld' = kbHeld \cup {phys}
    /\ LET r == Dispatch(trackers, window, "keydown", name, mod, kbDeclared, paused)
       IN /\ trackers' = r.trackers
          /\ kbLog' = r.log
    /\ kbCall' = KbOperation("keydown", name, mod, 0, FALSE, paused, phys \in kbHeld)
    /\ kbEntry' = Kinematics(kbSprite)
    /\ UNCHANGED <<kbSprite, window, kbDeclared, kbDestroyed>>
    /\ UNCHANGED <<spriteVars, gameVars, keysVars, physVars, camVars, ctorVars>>

\* A keyup event on the window.
KbKeyUp(phys, name, mod) ==
    /\ name \in ReportedNames(phys)
    /\ phys \in kbHeld
    /\ kbHeld' = kbHeld \ {phys}
    /\ LET r == Dispatch(trackers, window, "keyup", name, mod, kbDeclared, paused)
       IN /\ trackers' = r.trackers
          /\ kbLog' = r.log
    /\ kbCall' = KbOperation("keyup", name, mod, 0, FALSE, paused, FALSE)
    /\ kbEntry' = Kinematics(kbSprite)
    /\ UNCHANGED <<kbSprite, window, kbDeclared, kbDestroyed>>
    /\ UNCHANGED <<spriteVars, gameVars, keysVars, physVars, camVars, ctorVars>>

KbNext ==
    \/ \E delta \in KbDeltaChoices : KbUpdate(delta)
    \/ KbDestroy
    \/ \E phys \in PhysicalKeys, name \in KeyNames : KbKeyDown(phys, name, NoModifiers)
    \/ \E phys \in PhysicalKeys, name \in KeyNames : KbKeyUp(phys, name, NoModifiers)
    \/ Pause
    \/ Unpause

(***************************************************************************)
(* Steering: sprites that turn and thrust under the keyboard.  The sprite  *)
(* is built with one of a few behaviour lists and with the rotation, accel *)
(* and vel a program assigned to it; the operations are those of the key   *)
(* behaviours above.                                                       *)
(***************************************************************************)
Action(label, keyList) == [label |-> label, keys |-> keyList]

SteeringLists ==
    { << ThrustKeys(<< Action("forward", <<"Up">>), Action("back", <<"a">>) >>) >>,
      << ThrustKeys(<< Action("left", <<"Up">>), Action("right", <<"a">>) >>) >>,
      << ThrustKeys(<< Action("forward", <<"Up">>), Action("right", <<"a">>) >>) >>,
      << RotateKeys(2, << Action("clock", <<"a">>), Action("counter", <<"Up">>) >>) >>,
      << RotateKeys(2, << Action("clock", <<"a">>) >>),
         ThrustKeys(<< Action("forward", <<"Up">>) >>) >>,
      << ThrustKeys(<< Action("forward", <<"Up">>), Action("back", <<"a">>) >>),
         SpeedRamp(4, 2, 4) >>,
      << HandleKeys(<< HandlerEntry(<<"a">>, Some("onA"), Undefined),
                       HandlerEntry(<<"ArrowUp">>, Undefined, Some("token")) >>),
         RotateKeys(2, << Action("clock", <<"Up">>) >>) >> }

SteeringRotations == {0, 1, 5, 0 - 1, 0 - 4}

SteeringAccels == {point(0, 0), point(3, 0 - 2)}

SteeringVels == {point(0, 0), point(4, 0)}

SteeringInit ==
    \E bl \in SteeringLists, v \in SteeringVels, a \in SteeringAccels,
       r \in SteeringRotations :
        /\ v # point(0, 0) => \E i \in DOMAIN bl : bl[i].kind = "SpeedRamp"
        /\ KbInitSprite(bl, v, a, r)

(***************************************************************************)
(* A sprite under one movement behaviour at a time.  pos, vel and rotation *)
(* are public fields of Sprite, which a program assigns between updates.   *)
(***************************************************************************)
PhVelChoices ==
    {point(0, 0), point(2, 0), point(0, 0 - 6), point(0 - 5, 0), point(0, 3)}

FrictionStrengths == {2, 4}

SpeedLimits == {0, 3, 5}

PhDeltaChoices == {500, 1000}

PhSprite(p, v, r) ==
    [pos |-> p, vel |-> v, accel |-> point(0, 0), rotation |-> r]

PhCallRecord(op, arg, delta) ==
    [op |-> op, arg |-> arg, delta |-> delta, threw |-> FALSE]

PhInitWith(v) ==
    /\ phSprite = PhSprite(point(0, 0), v, 0)
    /\ phEntry = Kinematics(PhSprite(point(0, 0), v, 0))
    /\ phCall = PhCallRecord("new", 0, 0)
    /\ phLog = <<>>

PhInit == \E v \in PhVelChoices : PhInitWith(v)

PhysIdle == PhInitWith(point(0, 0))

\* sprite.vel = v
PhSetVel(v) ==
    /\ v # phSprite.vel
    /\ phSprite' = [phSprite EXCEPT !.vel = v]
    /\ phEntry' = Kinematics(phSprite)
    /\ phCall' = PhCallRecord("setVel", 0, 0)
    /\ phLog' = <<>>
    /\ UNCHANGED <<spriteVars, gameVars, keysVars, kbVars, camVars, ctorVars>>

\* Friction(strength)(game, sprite).update(delta)
PhFriction(strength, delta) ==
    /\ phSprite' = FrictionUpdate(phSprite, strength, delta)
    /\ phEntry' = Kinematics(phSprite)
    /\ phCall' = PhCallRecord("Friction", strength, delta)
    /\ phLog' = <<>>
    /\ UNCHANGED <<spriteVars, gameVars, keysVars, kbVars, camVars, ctorVars>>

\* SpeedLimited(limit)(game, sprite).update(delta)
PhSpeedLimited(limit, delta) ==
    /\ phSprite' = SpeedLimitedUpdate(phSprite, limit)
    /\ phEntry' = Kinematics(phSprite)
    /\ phCall' = PhCallRecord("SpeedLimited", limit, delta)
    /\ phLog' = <<>>
    /\ UNCHANGED <<spriteVars, gameVars, keysVars, kbVars, camVars, ctorVars>>

\* Where a target may be: nowhere, on an axis from the origin, or at it.
TargetChoices ==
    {Undefined, Some(point(3, 0)), Some(point(0, 3)), Some(point(0 - 3, 0)),
     Some(point(0, 0 - 3)), Some(point(0, 0))}

RotSpeedChoices == {FullTurn \div 2, DefaultRotSpeed}

RotateFactories ==
    { RotateToward(loc, rs) : loc \in TargetChoices, rs \in RotSpeedChoices }
    \cup { RotateTowardPlus(loc, 1, rs) : loc \in TargetChoices, rs \in RotSpeedChoices }
    \cup { RotateAwayFrom(loc, rs) : loc \in TargetChoices, rs \in RotSpeedChoices }

RotateDeltaChoices == {0, 500, 1000}

\* One update of a RotateToward, RotateTowardPlus or RotateAwayFrom behaviour,
\* its target, if any, along an axis from the sprite.
PhRotateToward(this, delta) ==
    /\ Abs(phSprite.rotation) <= MaxRotation
    /\ IsDefined(this.loc) =>
           \/ Val(this.loc).x = phSprite.pos.x
           \/ Val(this.loc).y = phSprite.pos.y
    /\ phSprite' = RotateTowardPlusUpdate(phSprite, this, delta)
    /\ phEntry' = Kinematics(phSprite)
    /\ phCall' = PhCallRecord("RotateToward", this, delta)
    /\ phLog' = <<>>
    /\ UNCHANGED <<spriteVars, gameVars, keysVars, kbVars, camVars, ctorVars>>

PhPosChoices ==
    {point(0, 0), point(5, 5), point(12, 0), point(0 - 3, 10), point(9, 8), point(8, 13)}

\* sprite.pos = p
PhSetPos(p) ==
    /\ p # phSprite.pos
    /\ phSprite' = [phSprite EXCEPT !.pos = p]
    /\ phEntry' = Kinematics(phSprite)
    /\ phCall' = PhCallRecord("setPos", 0, 0)
    /\ phLog' = <<>>
    /\ UNCHANGED <<spriteVars, gameVars, keysVars, kbVars, camVars, ctorVars>>

DrectChoices ==
    { DynamicRect(FALSE, TLBR(0, 0, 10, 10)), DynamicRect(TRUE, XYWH(0, 0, 10, 10)) }

BodyBoundsChoices == {NoneBounds, CircleBounds(2)}

\* Bounded(drect, cb)(game, sprite).update(delta), on a sprite with the body
\* bounds `bounds`: BehaviorBase.update calls the updateFn.
PhBounded(drect, bounds, this, delta) ==
    /\ LET r == BoundedUpdateFn(this, delta)
       IN  /\ phLog' = r.log
           /\ phCall' = [PhCallRecord("Bounded", [drect |-> drect, bounds |-> bounds],
                                      delta) EXCEPT !.threw = r.threw]
    /\ phEntry' = Kinematics(phSprite)
    /\ UNCHANGED phSprite
    /\ UNCHANGED <<spriteVars, gameVars, keysVars, kbVars, camVars, ctorVars>>

PhysNext ==
    \/ \E v \in PhVelChoices : PhSetVel(v)
    \/ \E strength \in FrictionStrengths, delta \in PhDeltaChoices :
           PhFriction(strength, delta)
    \/ \E limit \in SpeedLimits, delta \in PhDeltaChoices :
           PhSpeedLimited(limit, delta)
    \/ \E this \in RotateFactories, delta \in RotateDeltaChoices :
           PhRotateToward(this, delta)
    \/ \E p \in PhPosChoices : PhSetPos(p)
    \/ \E drect \in DrectChoices, bounds \in BodyBoundsChoices,
          this \in BoundedThisChoices, delta \in PhDeltaChoices :
           PhBounded(drect, bounds, this, delta)

(***************************************************************************)
(* A sprite with behaviors = [Momentum, Bounded(drect, spriteBounce)], in   *)
(* the class-based form of the behaviours (behavior.ts 611-655).  The       *)
(* rectangle and the body are those the sprite was built with, kept in the  *)
(* argument of the call record.                                            *)
(***************************************************************************)
\* A bounce that turns the whole velocity round, whichever edge was crossed.
spriteBounceTurnsRound(sp, bounds, exceed) ==
    LET tlbr == getTLBR(bounds)
    IN  [sp EXCEPT
           !.pos = point(IF exceed.x # 0
                         THEN (IF exceed.x < 0 THEN tlbr.l ELSE tlbr.r) - exceed.x
                         ELSE sp.pos.x,
                         IF exceed.y # 0
                         THEN (IF exceed.y < 0 THEN tlbr.t ELSE tlbr.b) - exceed.y
                         ELSE sp.pos.y),
           !.vel = point(0 - sp.vel.x, 0 - sp.vel.y)]

\* spriteBounce(sprite, bounds, exceed)
spriteBounce(sp, bounds, exceed) ==
    LET tlbr == getTLBR(bounds)
    IN  [sp EXCEPT
           !.pos = point(IF exceed.x # 0
                         THEN (IF exceed.x < 0 THEN tlbr.l ELSE tlbr.r) - exceed.x
                         ELSE sp.pos.x,
                         IF exceed.y # 0
                         THEN (IF exceed.y < 0 THEN tlbr.t ELSE tlbr.b) - exceed.y
                         ELSE sp.pos.y),
           !.vel = point(IF exceed.x # 0 THEN 0 - sp.vel.x ELSE sp.vel.x,
                         IF exceed.y # 0 THEN 0 - sp.vel.y ELSE sp.vel.y)]

\* BoundedClass.update(delta), the callback being spriteBounce, on a sprite
\* whose body has the bounds bodyBB.
BoundedClassUpdate(sp, drect, bodyBB, delta) ==
    LET rect == shrinkRect(getRect(drect), bodyBB)
        exceed == exceedsBounds(sp.pos, rect)
    IN  IF testExceed(exceed)
        THEN [sprite |-> spriteBounce(sp, rect, exceed),
              log |-> <<[op |-> "cb", sprite |-> sp.pos, bounds |-> rect,
                         exceed |-> exceed]>>]
        ELSE [sprite |-> sp, log |-> <<>>]

BounceVelChoices ==
    {point(2, 0), point(4, 0 - 6), point(0, 8), point(0 - 6, 2), point(14, 0 - 2)}

BouncePosChoices == {point(5, 5), point(2, 8), point(8, 3)}

\* new Sprite with pos and vel assigned, behaviors = [Momentum, Bounded(drect,
\* spriteBounce)] and the body bounds `bounds`.
BounceInit ==
    \E p \in BouncePosChoices, v \in BounceVelChoices, drect \in DrectChoices,
       bounds \in BodyBoundsChoices :
        /\ phSprite = PhSprite(p, v, 0)
        /\ phEntry = Kinematics(PhSprite(p, v, 0))
        /\ phCall = PhCallRecord("new", [drect |-> drect, bounds |-> bounds], 0)
        /\ phLog = <<>>

\* sprite.update(delta): Momentum's update, then Bounded's, for a sprite that
\* is within the shrunk rectangle when the update begins.
PhBounce(delta) ==
    /\ ~testExceed(exceedsBounds(phSprite.pos,
                                 shrinkRect(getRect(phCall.arg.drect), phCall.arg.bounds)))
    /\ \E r \in {BoundedClassUpdate(MomentumUpdate(phSprite, delta), phCall.arg.drect,
                                    phCall.arg.bounds, delta)} :
          /\ phSprite' = r.sprite
          /\ phLog' = r.log
    /\ phEntry' = Kinematics(phSprite)
    /\ phCall' = PhCallRecord("update", phCall.arg, delta)
    /\ UNCHANGED <<spriteVars, gameVars, keysVars, kbVars, camVars, ctorVars>>

BounceNext == \E delta \in PhDeltaChoices : PhBounce(delta)

(***************************************************************************)
(* A sprite at rest with behaviors = [RotateToward(loc)], or RotateTowardPlus*)
(* or RotateAwayFrom, updated tick after tick.  The behaviour is the one    *)
(* the sprite was built with, kept in the argument of the call record.      *)
(***************************************************************************)
TurningRotations == (0 - 3)..3

TurningPosChoices == {point(0, 0), point(0, 3)}

\* new Sprite with pos and rotation assigned and one turning behaviour whose
\* target is defined, away from the sprite and along an axis from it.
TurningInit ==
    \E p \in TurningPosChoices, r \in TurningRotations, this \in RotateFactories :
        /\ IsDefined(this.loc)
        /\ Val(this.loc) # p
        /\ Val(this.loc).x = p.x \/ Val(this.loc).y = p.y
        /\ phSprite = PhSprite(p, point(0, 0), r)
        /\ phEntry = Kinematics(PhSprite(p, point(0, 0), r))
        /\ phCall = PhCallRecord("new", this, 0)
        /\ phLog = <<>>

\* sprite.update(delta) on every tick of the frame driver.
TurningNext == \E delta \in PhDeltaChoices : PhRotateToward(phCall.arg, delta)

(***************************************************************************)
(* Camera.render (game.ts) on a canvas context.  A transform is the matrix *)
(* <<a, b, c, d, e, f>> of the canvas API, which maps (x, y) to            *)
(* (a*x + c*y + e, b*x + d*y + f); the context holds the current transform *)
(* and the stack of the transforms saved.                                  *)
(***************************************************************************)
Identity == <<1, 0, 0, 1, 0, 0>>

\* The transform that applies n first and m after it.
Multiply(m, n) ==
    << m[1] * n[1] + m[3] * n[2], m[2] * n[1] + m[4] * n[2],
       m[1] * n[3] + m[3] * n[4], m[2] * n[3] + m[4] * n[4],
       m[1] * n[5] + m[3] * n[6] + m[5], m[2] * n[5] + m[4] * n[6] + m[6] >>

\* c.setTransform(a, b, c, d, e, f)
setTransform(c, m) == [c EXCEPT !.transform = m]

\* c.save()
save(c) == [c EXCEPT !.stack = Append(c.stack, c.transform)]

\* c.restore(): nothing happens when no state is saved.
restore(c) ==
    IF c.stack = <<>> THEN c
    ELSE [transform |-> c.stack[Len(c.stack)],
          stack |-> SubSeq(c.stack, 1, Len(c.stack) - 1)]

\* c.translate(x, y)
translate(c, x, y) ==
    [c EXCEPT !.transform = Multiply(c.transform, <<1, 0, 0, 1, x, y>>)]

\* c.scale(x, y)
scale(c, x, y) ==
    [c EXCEPT !.transform = Multiply(c.transform, <<x, 0, 0, y, 0, 0>>)]

\* c.rotate(angle)
rotate(c, q) ==
    [c EXCEPT !.transform =
        Multiply(c.transform, <<Cos(q), Sin(q), 0 - Sin(q), Cos(q), 0, 0>>)]

\* The canvas of new Game(): 800 by 600.
CanvasWidth == 800
CanvasHeight == 600

\* A draw or strokeRect call on the context, under its transform of the moment.
CanvasCall(op, node, c) == [op |-> op, node |-> node, transform |-> c.transform]

\* What arg.draw(c) leaves of the context: the draw of entity 2 moves the
\* origin and does not put it back.
AfterDraw(c, arg) == IF arg = 2 THEN translate(c, 7, 7) ELSE c

\* A positioned drawable drawn on the context as it is, nothing saved or restored.
DrawWithoutRestore(c, place, arg, throws) ==
    LET moved == IF place[arg].pos.x # 0 \/ place[arg].pos.y # 0
                 THEN translate(c, place[arg].pos.x, place[arg].pos.y) ELSE c
        turned == IF place[arg].rotation # 0
                  THEN rotate(moved, place[arg].rotation) ELSE moved
    IN  [context |-> AfterDraw(turned, arg),
         log |-> <<CanvasCall("draw", arg, turned)>>,
         threw |-> throws]

\* The entity's state restored after a draw that returns, and left saved
\* after a draw that throws.
DrawRestoredOnReturnOnly(c, place, arg, throws) ==
    LET saved == save(c)
        moved == IF place[arg].pos.x # 0 \/ place[arg].pos.y # 0
                 THEN translate(saved, place[arg].pos.x, place[arg].pos.y) ELSE saved
        turned == IF place[arg].rotation # 0
                  THEN rotate(moved, place[arg].rotation) ELSE moved
    IN  [context |-> IF throws THEN turned ELSE restore(AfterDraw(turned, arg)),
         log |-> <<CanvasCall("draw", arg, turned)>>,
         threw |-> throws]

\* c.save(); try { translate; rotate; arg.draw(c) } finally { c.restore() },
\* where arg.draw(c) returns or throws.
DrawPositioned(c, place, arg, throws) ==
    LET saved == save(c)
        moved == IF place[arg].pos.x # 0 \/ place[arg].pos.y # 0
                 THEN translate(saved, place[arg].pos.x, place[arg].pos.y) ELSE saved
        turned == IF place[arg].rotation # 0
                  THEN rotate(moved, place[arg].rotation) ELSE moved
    IN  [context |-> restore(AfterDraw(turned, arg)),
         log |-> <<CanvasCall("draw", arg, turned)>>,
         threw |-> throws]

RECURSIVE DrawBounds(_, _, _)
\* The drawBB pass: for every element of the scene that has a body, save,
\* translate to its pos, strokeRect its bounds, restore.
DrawBounds(c, place, sc) ==
    IF sc = <<>> THEN <<>>
    ELSE (IF Head(sc) \in DrawableEntities
          THEN <<CanvasCall("strokeRect", Head(sc),
                            translate(save(c), place[Head(sc)].pos.x,
                                      place[Head(sc)].pos.y))>>
          ELSE <<>>)
         \o DrawBounds(c, place, Tail(sc))

\* The sub-scene rendered and the context left as the nested render left it.
RenderSubspritesUnrestored(c, sub) == sub.context

\* try { c.setTransform(identity); this.render(arg.subsprites) }
\* finally { c.restore() }: the context after the finally.
RenderSubspritesRestored(c, sub) == restore(sub.context)

RECURSIVE CameraRender(_, _, _, _, _), CameraRenderElements(_, _, _, _, _, _)

\* the body of scene.forEach in Camera.render, from the element i on; the
\* draw of the entity `thrower` throws, and an exception ends the forEach.
CameraRenderElements(c, cam, place, sc, i, thrower) ==
    IF i > Len(sc) THEN [context |-> c, log |-> <<>>, threw |-> FALSE]
    ELSE LET arg == sc[i]
             drawn == IF isPositionedDrawable(arg)
                      THEN LET d == DrawPositioned(c, place, arg, arg = thrower)
                           IN [d EXCEPT !.log =
                                  d.log \o (IF cam.drawBB /\ ~d.threw
                                            THEN DrawBounds(d.context, place, sc)
                                            ELSE <<>>)]
                      ELSE [context |-> c, log |-> <<>>, threw |-> FALSE]
             sub == IF isSpriteContainer(arg) /\ ~drawn.threw
                    THEN LET r == CameraRender(setTransform(save(drawn.context), Identity),
                                               cam, place, Val(subsprites(arg)), thrower)
                         IN [context |-> RenderSubspritesRestored(drawn.context, r),
                             log |-> r.log, threw |-> r.threw]
                    ELSE [context |-> drawn.context, log |-> <<>>, threw |-> drawn.threw]
         IN  IF sub.threw
             THEN [context |-> sub.context, log |-> drawn.log \o sub.log, threw |-> TRUE]
             ELSE LET rest == CameraRenderElements(sub.context, cam, place, sc, i + 1,
                                                   thrower)
                  IN  [context |-> rest.context, log |-> drawn.log \o sub.log \o rest.log,
                       threw |-> rest.threw]

\* Camera.render(scene); the closing c.restore() is not reached by an exception.
CameraRender(c, cam, place, sc, thrower) ==
    LET reset == save(setTransform(c, Identity))
        centred == translate(reset, CanvasWidth \div 2, CanvasHeight \div 2)
        scaled == IF cam.scale # 1 THEN scale(centred, cam.scale, cam.scale) ELSE centred
        turned == IF cam.rotation # 0 THEN rotate(scaled, 0 - cam.rotation) ELSE scaled
        moved == IF cam.pos.x # 0 \/ cam.pos.y # 0
                 THEN translate(turned, 0 - cam.pos.x, 0 - cam.pos.y) ELSE turned
        els == CameraRenderElements(moved, cam, place, sc, 1, thrower)
    IN  [context |-> IF els.threw THEN els.context ELSE restore(els.context),
         log |-> els.log, threw |-> els.threw]

CameraPosChoices == {point(0, 0), point(10, 0 - 20)}

CameraRotationChoices == {0, 1}

CameraScaleChoices == {1, 2}

PlacePosChoices == {point(0, 0), point(30, 40)}

PlaceRotationChoices == {0, 3}

Placed(p, r) == [pos |-> p, rotation |-> r]

\* The most recent call: for a render, the scene, the entity whose draw threw
\* (0 if none), whether render threw, and the saved states at entry.
CameraCallRecord(op, sc) ==
    [op |-> op, scene |-> sc, thrower |-> 0, threw |-> FALSE, entry |-> <<>>]

\* new Camera(game, canvas), and sprites as constructed.
CamInit ==
    /\ camera = [pos |-> point(0, 0), rotation |-> 0, scale |-> 1, drawBB |-> FALSE]
    /\ placement = [n \in DrawableEntities |-> Placed(point(0, 0), 0)]
    /\ context = [transform |-> Identity, stack |-> <<>>]
    /\ canvasLog = <<>>
    /\ cameraCall = CameraCallRecord("new", <<>>)

CamIdle == CamInit

\* How many states the model lets exceptions leave saved on the context.
MaxSavedStates == 3

\* camera.render(scene), the draw of the entity `thrower` (0: none) throwing.
CamRender(sc, thrower) ==
    /\ thrower # 0 => Len(context.stack) < MaxSavedStates
    /\ \E r \in {CameraRender(context, camera, placement, sc, thrower)} :
          /\ context' = r.context
          /\ canvasLog' = r.log
          /\ cameraCall' = [CameraCallRecord("render", sc) EXCEPT
                               !.thrower = thrower, !.threw = r.threw,
                               !.entry = context.stack]
    /\ UNCHANGED <<camera, placement>>
    /\ UNCHANGED <<spriteVars, gameVars, keysVars, kbVars, physVars, ctorVars>>

\* camera.pos = p, camera.rotation = r, camera.scale = k, camera.drawBB = b
CamSet(p, r, k, b) ==
    /\ camera' = [pos |-> p, rotation |-> r, scale |-> k, drawBB |-> b]
    /\ camera' # camera
    /\ cameraCall' = CameraCallRecord("set", <<>>)
    /\ canvasLog' = <<>>
    /\ UNCHANGED <<placement, context>>
    /\ UNCHANGED <<spriteVars, gameVars, keysVars, kbVars, physVars, ctorVars>>

\* sprite.pos = p; sprite.rotation = r, for the entity n
CamPlace(n, p, r) ==
    /\ placement' = [placement EXCEPT ![n] = Placed(p, r)]
    /\ placement' # placement
    /\ cameraCall' = CameraCallRecord("place", <<>>)
    /\ canvasLog' = <<>>
    /\ UNCHANGED <<camera, context>>
    /\ UNCHANGED <<spriteVars, gameVars, keysVars, kbVars, physVars, ctorVars>>

\* Code outside the camera leaves a transform on the context.
CamDirty ==
    /\ context.transform = Identity
    /\ context' = translate(context, 5, 5)
    /\ cameraCall' = CameraCallRecord("dirty", <<>>)
    /\ canvasLog' = <<>>
    /\ UNCHANGED <<camera, placement>>
    /\ UNCHANGED <<spriteVars, gameVars, keysVars, kbVars, physVars, ctorVars>>

CamNext ==
    \/ \E sc \in SceneChoices : CamRender(sc, 0)
    \/ \E p \in CameraPosChoices, r \in CameraRotationChoices, k \in CameraScaleChoices,
          b \in BOOLEAN : CamSet(p, r, k, b)
    \/ \E n \in DrawableEntities, p \in PlacePosChoices, r \in PlaceRotationChoices :
           CamPlace(n, p, r)
    \/ CamDirty

\* Renders in which a draw may throw, under a camera that is moved, turned
\* and zoomed, the entities staying where they were built.
ThrowerChoices == {0} \cup DrawableEntities

CanvasNext ==
    \/ \E sc \in SceneChoices, thrower \in ThrowerChoices : CamRender(sc, thrower)
    \/ \E p \in CameraPosChoices, r \in CameraRotationChoices, k \in CameraScaleChoices :
           CamSet(p, r, k, FALSE)
    \/ CamDirty

(***************************************************************************)
(* new Game({parent}) (game.ts 47-83) and new Camera(game, canvas) (216-222).*)
(* A string is the sequence of its characters.  The page has a body and one *)
(* element with an id; whether the canvas yields a 2D context is up to the  *)
(* host.                                                                    *)
(***************************************************************************)
MaxConstructions == 2

Elements == {"body", "stage"}

\* The id attribute of each element of the page.
ElementId(e) == IF e = "stage" THEN <<"s", "t">> ELSE <<>>

\* s.substring(from, to) and s.substring(from)
substring(s, from, to) == SubSeq(s, from + 1, Min(to, Len(s)))

substringFrom(s, from) == SubSeq(s, from + 1, Len(s))

\* document.getElementById(id): the element, or null.
getElementById(id) ==
    IF \E e \in Elements : ElementId(e) # <<>> /\ ElementId(e) = id
    THEN Some(CHOOSE e \in Elements : ElementId(e) # <<>> /\ ElementId(e) = id)
    ELSE Undefined

\* The parent argument: absent, a string, or an HTMLElement.
StringParent(s) == Some([type |-> "string", value |-> s])

ElementParent(e) == Some([type |-> "object", value |-> e])

ParentChoices ==
    { Undefined, StringParent(<<"#", "s", "t">>), StringParent(<<"#", "n", "o">>),
      StringParent(<<"s", "t">>), StringParent(<<>>), StringParent(<<"#">>),
      ElementParent("stage") }

\* The outcome of a constructor: an exception with its message, or the object.
Thrown(message, doc) ==
    [threw |-> TRUE, message |-> message, document |-> doc, game |-> Undefined]

Constructed(game, doc) ==
    [threw |-> FALSE, message |-> "", document |-> doc, game |-> Some(game)]

\* new Camera(game, canvas): throws when canvas.getContext("2d") is null.
CameraConstructor(context2d) ==
    IF ~context2d
    THEN [threw |-> TRUE,
          message |-> "Ionsible: Could not obtain 2D drawing context from canvas."]
    ELSE [threw |-> FALSE, message |-> ""]

\* A constructor that falls back on the body when the parent is not found.
GameConstructorFallsBack(doc, parent, context2d) ==
    LET parentElem ==
            IF ~IsDefined(parent) THEN "body"
            ELSE IF Val(parent).type = "string"
                 THEN IF substring(Val(parent).value, 0, 1) = <<"#">>
                         /\ IsDefined(getElementById(substringFrom(Val(parent).value, 1)))
                      THEN Val(getElementById(substringFrom(Val(parent).value, 1)))
                      ELSE "body"
                 ELSE Val(parent).value
        appended == [doc EXCEPT ![parentElem] = doc[parentElem] + 1]
    IN  Constructed([parent |-> parent, context2d |-> context2d, element |-> parentElem,
                     drivers |-> 0, ticks |-> 0],
                    appended)

\* new Game({parent}) on the page doc, the host giving a 2D context or not.
GameConstructor(doc, parent, context2d) ==
    IF IsDefined(parent) /\ Val(parent).type = "string"
       /\ substring(Val(parent).value, 0, 1) # <<"#">>
    THEN Thrown("Ionsible: parent doesn't begin with a #.", doc)
    ELSE LET parentElem ==
                 IF ~IsDefined(parent) THEN Some("body")
                 ELSE IF Val(parent).type = "string"
                      THEN getElementById(substringFrom(Val(parent).value, 1))
                      ELSE Some(Val(parent).value)
         IN  IF ~IsDefined(parentElem)
             THEN Thrown("Ionsible: Couldn't find parent element for canvas.", doc)
             ELSE LET appended == [doc EXCEPT ![Val(parentElem)] = doc[Val(parentElem)] + 1]
                      cam == CameraConstructor(context2d)
                  IN  IF cam.threw THEN Thrown(cam.message, appended)
                      ELSE Constructed([parent |-> parent, context2d |-> context2d,
                                        element |-> Val(parentElem),
                                        drivers |-> 0, ticks |-> 0],
                                       appended)

CtorCallRecord(op, parent, context2d, threw, message, before) ==
    [op |-> op, parent |-> parent, context2d |-> context2d, threw |-> threw,
     message |-> message, gamesBefore |-> before]

CtorInit ==
    /\ document = [e \in Elements |-> 0]
    /\ games = <<>>
    /\ ctorCall = CtorCallRecord("load", Undefined, FALSE, FALSE, "", 0)

CtorIdle == CtorInit

\* let g = new Game({parent}): g exists only when the constructor returns.
CtNewGame(parent, context2d) ==
    /\ document["body"] + document["stage"] < MaxConstructions
    /\ \E r \in {GameConstructor(document, parent, context2d)} :
          /\ document' = r.document
          /\ games' = IF r.threw THEN games ELSE Append(games, Val(r.game))
          /\ ctorCall' = CtorCallRecord("new", parent, context2d, r.threw, r.message,
                                        Len(games))
    /\ UNCHANGED <<spriteVars, gameVars, keysVars, kbVars, physVars, camVars>>

\* g.start(), on a game that was constructed.
CtStart(g) ==
    /\ games[g].drivers < MaxDrivers
    /\ games' = [games EXCEPT ![g].drivers = @ + 1]
    /\ ctorCall' = CtorCallRecord("start", games[g].parent, games[g].context2d, FALSE, "",
                                  Len(games))
    /\ UNCHANGED document
    /\ UNCHANGED <<spriteVars, gameVars, keysVars, kbVars, physVars, camVars>>

\* A timer callback of a driver of the game g: one update and render tick.
CtTick(g) ==
    /\ games[g].drivers > 0
    /\ games[g].ticks < MaxTicks
    /\ games' = [games EXCEPT ![g].ticks = @ + 1]
    /\ ctorCall' = CtorCallRecord("tick", games[g].parent, games[g].context2d, FALSE, "",
                                  Len(games))
    /\ UNCHANGED document
    /\ UNCHANGED <<spriteVars, gameVars, keysVars, kbVars, physVars, camVars>>

CtorNext ==
    \/ \E parent \in ParentChoices, context2d \in BOOLEAN : CtNewGame(parent, context2d)
    \/ \E g \in DOMAIN games : CtStart(g)
    \/ \E g \in DOMAIN games : CtTick(g)

(***************************************************************************)
(* Specifications: one per component, the other components left as built.  *)
(***************************************************************************)
SpriteIdle ==
    /\ sprite = NewSprite(<<>>, point(0, 0), point(0, 0))
    /\ declared = <<>>
    /\ factoryCalls = <<>>
    /\ spriteLog = <<>>
    /\ spriteCall = [op |-> "new", delta |-> 0, threw |-> FALSE]
    /\ spriteEntry = Kinematics(NewSprite(<<>>, point(0, 0), point(0, 0)))
    /\ posHistory = <<>>
    /\ destroyed = FALSE

GameIdle ==
    /\ GameInit
    /\ scene = <<>>

InitSprite == SpriteInit /\ GameIdle /\ KeysIdle /\ KbIdle /\ PhysIdle /\ CamIdle /\ CtorIdle

InitGame == GameInit /\ SpriteIdle /\ KeysIdle /\ KbIdle /\ PhysIdle /\ CamIdle /\ CtorIdle

InitKeys == KeysInit /\ SpriteIdle /\ GameIdle /\ KbIdle /\ PhysIdle /\ CamIdle /\ CtorIdle

InitKeyBehaviors == KbInit /\ SpriteIdle /\ GameIdle /\ KeysIdle /\ PhysIdle /\ CamIdle /\ CtorIdle

SpecSprite == InitSprite /\ [][SpriteNext]_vars

SpecGame == InitGame /\ [][GameNext]_vars

SpecKeys == InitKeys /\ [][KeysNext]_vars

SpecKeyBehaviors == InitKeyBehaviors /\ [][KbNext]_vars

InitSteering == SteeringInit /\ SpriteIdle /\ GameIdle /\ KeysIdle /\ PhysIdle /\ CamIdle /\ CtorIdle

SpecSteering == InitSteering /\ [][KbNext]_vars

InitPhysics == PhInit /\ SpriteIdle /\ GameIdle /\ KeysIdle /\ KbIdle /\ CamIdle /\ CtorIdle

SpecPhysics == InitPhysics /\ [][PhysNext]_vars

InitCamera ==
    CamInit /\ SpriteIdle /\ GameIdle /\ KeysIdle /\ KbIdle /\ PhysIdle /\ CtorIdle

SpecCamera == InitCamera /\ [][CamNext]_vars

SpecCanvas == InitCamera /\ [][CanvasNext]_vars

SpecDrivers == InitGame /\ [][DriversNext]_vars

InitBounce ==
    BounceInit /\ SpriteIdle /\ GameIdle /\ KeysIdle /\ KbIdle /\ CamIdle /\ CtorIdle

SpecBounce == InitBounce /\ [][BounceNext]_vars

InitTurning ==
    TurningInit /\ SpriteIdle /\ GameIdle /\ KeysIdle /\ KbIdle /\ CamIdle /\ CtorIdle

\* The frame driver keeps ticking: an update that can change something happens.
SpecTurning == InitTurning /\ [][TurningNext]_vars /\ WF_vars(TurningNext)

InitConstruction ==
    CtorInit /\ SpriteIdle /\ GameIdle /\ KeysIdle /\ KbIdle /\ PhysIdle /\ CamIdle

SpecConstruction == InitConstruction /\ [][CtorNext]_vars

(***************************************************************************)
(* Properties of Sprite.update.                                            *)
(***************************************************************************)
IsUpdateCall(e) == e.op = "update"
IsFactoryCall(e) == e.op = "factory"
UpdateCalls == SelectSeq(spriteLog, IsUpdateCall)
FactoryCalls == SelectSeq(spriteLog, IsFactoryCall)
Instances == Val(sprite.behaviorsInst)

C2_FactoriesRunOnce ==
    /\ posHistory = <<>> =>
          /\ IsDefined(sprite.behaviors)
          /\ ~IsDefined(sprite.behaviorsInst)
          /\ \A i \in DOMAIN factoryCalls : factoryCalls[i] = 0
          /\ FactoryCalls = <<>>
    /\ posHistory # <<>> =>
          /\ sprite.behaviors = Undefined
          /\ DOMAIN factoryCalls = 1..Len(declared)
          /\ \A i \in DOMAIN factoryCalls : factoryCalls[i] = 1
          /\ \A i \in 1..Len(Instances) : Instances[i].gen = 1
          /\ ~destroyed => Len(Instances) = Len(declared)
    /\ (spriteCall.op = "update" /\ Len(posHistory) = 1) =>
          /\ Len(FactoryCalls) = Len(declared)
          /\ \A i \in 1..Len(spriteLog) :
                IF i <= Len(declared)
                THEN spriteLog[i].op = "factory" /\ spriteLog[i].idx = i
                ELSE spriteLog[i].op = "update"
    /\ (spriteCall.op = "update" /\ Len(posHistory) >= 2) =>
          /\ FactoryCalls = <<>>
          /\ \A i \in 1..Len(UpdateCalls) : UpdateCalls[i].inst.gen = 1

\* A third update of a sprite with two behaviours, run on the first instances.
C2_Witness ==
    /\ spriteCall.op = "update"
    /\ Len(posHistory) = 3
    /\ Len(declared) = 2
    /\ Len(UpdateCalls) = 2
    /\ FactoryCalls = <<>>

\* C9: update stores in lastPos the value pos had on entry, before any
\* behaviour runs: every behaviour of the tick sees that value, which is the
\* position the previous update ended with, and it is still there afterwards
\* whatever the behaviours did to pos.
C9_LastPosIsEntryPos ==
    posHistory # <<>> =>
        LET n == Len(posHistory)
        IN /\ sprite.lastPos = Some(posHistory[n].entry)
           /\ n >= 2 => posHistory[n].entry = posHistory[n - 1].end
           /\ spriteCall.op = "update" =>
                 /\ posHistory[n].entry = spriteEntry.pos
                 /\ posHistory[n].end = sprite.pos
                 /\ \A i \in 1..Len(UpdateCalls) :
                       UpdateCalls[i].lastPos = Some(spriteEntry.pos)

\* A later update whose behaviours moved the sprite away from its entry position.
C9_Witness ==
    /\ spriteCall.op = "update"
    /\ Len(posHistory) >= 2
    /\ UpdateCalls # <<>>
    /\ sprite.pos # spriteEntry.pos
    /\ posHistory[1].end # posHistory[1].entry

(***************************************************************************)
(* Properties of the game loop.                                            *)
(***************************************************************************)
UpdateOps == {"update", "cameraUpdate"}
RenderOps == {"render", "renderSub", "draw"}
IsEntityUpdate(e) == e.op = "update"
IsCameraUpdate(e) == e.op = "cameraUpdate"
IsRenderCall(e) == e.op = "render"
IsDraw(e) == e.op = "draw"
EntityUpdates == SelectSeq(tickLog, IsEntityUpdate)
CameraUpdates == SelectSeq(tickLog, IsCameraUpdate)
RenderCalls == SelectSeq(tickLog, IsRenderCall)
Ticked == lastTick.driver # 0
TickBound == (1000 \div lastTick.fps) * lastTick.maxFramesSkipped

RECURSIVE Descendants(_)
Descendants(n) ==
    IF isSpriteContainer(n)
    THEN UNION { {c} \cup Descendants(c) : c \in Range(Val(subsprites(n))) }
    ELSE {}

SceneEntities(sc) == UNION { {n} \cup Descendants(n) : n \in Range(sc) }

\* The sibling lists of a scene: the scene itself and every subsprites list in it.
SiblingLists(sc) ==
    {sc} \cup { Val(subsprites(n)) : n \in { m \in SceneEntities(sc) : isSpriteContainer(m) } }

\* Where in the tick's calls entity n (with its subtree) was first and last updated.
UpdateIndexes(n) ==
    { i \in DOMAIN tickLog :
        tickLog[i].op = "update" /\ tickLog[i].node \in ({n} \cup Descendants(n)) }

\* C3: within a tick every entity update and camera update is over before the
\* first call of the render; the calls of a tick are updates, then renders.
C3_UpdateBeforeRender ==
    Ticked =>
        \A i, j \in DOMAIN tickLog :
            (tickLog[i].op \in UpdateOps /\ tickLog[j].op \in RenderOps) => i < j

\* An unpaused tick over a nested scene: updates, camera updates and draws.
C3_Witness ==
    /\ Ticked
    /\ ~lastTick.paused
    /\ Len(EntityUpdates) >= 3
    /\ Len(SelectSeq(tickLog, IsDraw)) >= 3

\* C4: a tick with the game paused updates no entity and no camera, leaves
\* elapsed alone and renders once; a tick with the game not paused updates the
\* scene and renders once.  pause, unpause and togglePause change the paused
\* flag only, and the drivers stay.
C4_PausedTickStep ==
    (nTicks' = nTicks + 1 /\ paused) =>
        /\ elapsed' = elapsed
        /\ drivers' # <<>>

C4_PauseStep ==
    (paused' # paused) =>
        UNCHANGED <<scene, elapsed, fps, maxFramesSkipped, now, drivers, tickLog,
                    lastTick, tickedAt, unpausedSum, nTicks>>

C4_TickState ==
    Ticked =>
        /\ Len(RenderCalls) = 1
        /\ lastTick.paused =>
              /\ EntityUpdates = <<>>
              /\ CameraUpdates = <<>>
              /\ elapsed = lastTick.elapsedBefore
        /\ ~lastTick.paused =>
              /\ CameraUpdates # <<>>
              /\ tickLog[Len(tickLog)].op \in RenderOps

C4_PausedTicksOnlyRender ==
    /\ []C4_TickState
    /\ [][C4_PausedTickStep /\ C4_PauseStep]_vars

\* A tick that ran paused over a scene with entities, on a game that had run.
C4_Witness ==
    /\ Ticked
    /\ lastTick.paused
    /\ elapsed > 0
    /\ Len(SelectSeq(tickLog, IsDraw)) >= 3

\* C5: the delta handed to the scene update never exceeds
\* (1000 / fps) * maxFramesSkipped at the values fps and maxFramesSkipped have
\* at that tick; it is the wall time since the driver's reference timestamp
\* when that does not exceed the bound, and the bound otherwise.
C5_DeltaClamped ==
    (Ticked /\ ~lastTick.paused) =>
        \A i \in DOMAIN tickLog :
            tickLog[i].op \in UpdateOps =>
                /\ tickLog[i].delta <= TickBound
                /\ tickLog[i].delta
                     = IF lastTick.wall <= TickBound THEN lastTick.wall ELSE TickBound

\* A tick whose wall time exceeded a bound computed from changed tunables.
C5_Witness ==
    /\ Ticked
    /\ ~lastTick.paused
    /\ lastTick.fps # DefaultFps
    /\ lastTick.maxFramesSkipped # DefaultMaxFramesSkipped
    /\ lastTick.wall > TickBound
    /\ EntityUpdates # <<>>
    /\ EntityUpdates[1].delta = TickBound

\* C6: elapsed is the sum of the clamped deltas of the ticks that ran while the
\* game was not paused, each delta measured from the driver's previous tick,
\* paused or not.
C6_ElapsedIsUnpausedTime == elapsed = unpausedSum

\* An unpaused tick of a driver whose previous tick ran paused.
C6_Witness ==
    /\ Ticked
    /\ ~lastTick.paused
    /\ lastTick.prevPaused
    /\ lastTick.prevDriver = lastTick.driver
    /\ lastTick.wall <= TickBound
    /\ elapsed > 0
    /\ elapsed < now

\* C7: an unpaused tick over a tree-shaped scene updates every updatable entity
\* of the tree exactly once, all with one delta, siblings in list order, and a
\* container before everything in its subsprites (depth first).
C7_SceneUpdatedDepthFirst ==
    (Ticked /\ ~lastTick.paused) =>
        LET tree == SceneEntities(lastTick.scene)
        IN /\ \A n \in tree :
                 isUpdatable(n) =>
                     Cardinality({ i \in DOMAIN EntityUpdates :
                                     EntityUpdates[i].node = n }) = 1
           /\ \A i \in DOMAIN EntityUpdates :
                 /\ EntityUpdates[i].node \in tree
                 /\ isUpdatable(EntityUpdates[i].node)
                 /\ EntityUpdates[i].delta = EntityUpdates[1].delta
           /\ \A n \in tree : \A c \in Descendants(n) :
                 \A i \in DOMAIN tickLog : \A j \in UpdateIndexes(c) :
                     (tickLog[i].op = "update" /\ tickLog[i].node = n) => i < j
           /\ \A list \in SiblingLists(lastTick.scene) : \A a, b \in DOMAIN list :
                 a < b => \A i \in UpdateIndexes(list[a]) :
                              \A j \in UpdateIndexes(list[b]) : i < j

\* An unpaused tick over the scene <<1, 2>>, whose tree holds 1, 3, 4, 5 and 2.
C7_Witness ==
    /\ Ticked
    /\ ~lastTick.paused
    /\ lastTick.scene = <<1, 2>>
    /\ Len(EntityUpdates) = 4
    /\ EntityUpdates[1].delta > 0

\* C8: an unpaused tick calls camera.update(delta) exactly once, after every
\* entity of the scene tree has been updated.
C8_CameraUpdatedOnceAfterScene ==
    (Ticked /\ ~lastTick.paused) =>
        /\ Len(CameraUpdates) = 1
        /\ \A i, j \in DOMAIN tickLog :
              (tickLog[i].op = "update" /\ tickLog[j].op = "cameraUpdate") => i < j

(***************************************************************************)
(* Properties of Keys.                                                     *)
(***************************************************************************)
\* The tracker has not been destroyed: both listeners are on the target.
Live == listening = ListenerTypes

\* The labels that actions() associated with a key that is physically held.
HeldLabels ==
    { l \in Labels :
        \E pair \in associations :
            pair[1] = l /\ PhysicalKeyOf(pair[2]) \in heldPhysical }

\* C10: pulse() returns exactly the labels that have at least one associated
\* key held, also when one key is associated with more than one label.
C10_PulseReturnsHeldLabels ==
    (keysCall.op = "pulse" /\ Live) => Val(actionTracker) = HeldLabels

IsKeyEvent(call) == call.op \in {"keydown", "keyup"}
IsDownCall(e) == e.op = "down"
IsUpCall(e) == e.op = "up"
IsPreventDefault(e) == e.op = "preventDefault"
AliasesOf(name) == ReportedNames(PhysicalKeyOf(name))

\* The alias classes of key names: space, the arrows, escape, delete, letters.
AliasClasses ==
    { {" ", "Space", "Spacebar"}, {"Up", "ArrowUp"}, {"Down", "ArrowDown"},
      {"Left", "ArrowLeft"}, {"Right", "ArrowRight"}, {"Esc", "Escape"},
      {"Del", "Delete"}, {"a", "A"}, {"b", "B"} }

\* C11: an onDown (onUp) handler runs exactly once per transition of its key
\* from released to held (held to released): once also when it is registered
\* under several aliases of the key, not for a keydown of a key already held,
\* and never in pulse().
C11_HandlersFireOncePerTransition ==
    /\ (keysCall.op = "keydown" /\ keysCall.delivered) =>
          Len(SelectSeq(keysLog, IsDownCall))
            = IF ~keysCall.repeat /\ AliasesOf(keysCall.key) \cap DOMAIN downs # {}
              THEN 1 ELSE 0
    /\ (keysCall.op = "keyup" /\ keysCall.delivered) =>
          Len(SelectSeq(keysLog, IsUpCall))
            = IF AliasesOf(keysCall.key) \cap DOMAIN ups # {} THEN 1 ELSE 0
    /\ keysCall.op = "pulse" => keysLog = <<>>

\* C12: getKeys gives every name of an alias class the whole class; so a live
\* tracker holds exactly the names of the keys physically held, whichever alias
\* each keydown and keyup was reported under, and a handler or action
\* registered under one alias reacts to an event reported under another.
C12_AliasesShareOneNameSet ==
    /\ \A cls \in AliasClasses : \A name \in cls : Range(getKeys(name)) = cls
    /\ Live => keys = UNION { ReportedNames(phys) : phys \in heldPhysical }
    /\ (keysCall.op = "keydown" /\ keysCall.delivered) =>
          \A k \in AliasesOf(keysCall.key) \cap DOMAIN downs :
              \E i \in DOMAIN keysLog : keysLog[i].op = "down" /\ keysLog[i].key = k
    /\ (keysCall.op = "keyup" /\ keysCall.delivered) =>
          \A k \in AliasesOf(keysCall.key) \cap DOMAIN ups :
              \E i \in DOMAIN keysLog : keysLog[i].op = "up" /\ keysLog[i].key = k
    /\ (keysCall.op = "pulse" /\ Live) =>
          \A k \in DOMAIN connections :
              PhysicalKeyOf(k) \in heldPhysical => connections[k] \in Val(actionTracker)

\* A key pressed under one name and released under its other name, the
\* release running a handler that was registered under the first name only.
C12_Witness ==
    /\ keysCall.op = "keyup"
    /\ keysCall.delivered
    /\ keysCall.crossAlias
    /\ keysCall.key = "A"
    /\ keys = {}
    /\ DOMAIN ups = {"a"}
    /\ SelectSeq(keysLog, IsUpCall) # <<>>

\* C13: a key event delivered to a live tracker has preventDefault called on it
\* exactly when none of altKey, ctrlKey and metaKey is set, handlers or not.
C13_PreventDefaultUnlessModified ==
    (IsKeyEvent(keysCall) /\ keysCall.delivered) =>
        Len(SelectSeq(keysLog, IsPreventDefault))
          = IF keysCall.mod.altKey \/ keysCall.mod.ctrlKey \/ keysCall.mod.metaKey
            THEN 0 ELSE 1

\* A keydown with only the meta flag set, on a key that has a handler.
C13_Witness ==
    /\ keysCall.op = "keydown"
    /\ keysCall.delivered
    /\ keysCall.mod = Modifiers(FALSE, FALSE, TRUE, FALSE)
    /\ SelectSeq(keysLog, IsDownCall) # <<>>
    /\ SelectSeq(keysLog, IsPreventDefault) = <<>>

\* C14: destroy() removes both listeners, and from then on a key event changes
\* neither the held-key set nor calls a handler or preventDefault.
C14_DestroyedState == keysCall.op = "destroy" => listening = {}

C14_DestroyedStep ==
    (listening # ListenerTypes /\ IsKeyEvent(keysCall')) =>
        /\ keys' = keys
        /\ keysLog' = <<>>
        /\ ~keysCall'.delivered

C14_DestroyStopsListening ==
    /\ []C14_DestroyedState
    /\ [][C14_DestroyedStep]_vars

\* A keyup, after destroy, of a key that is in the held set and has a handler.
C14_Witness ==
    /\ keysCall.op = "keyup"
    /\ ~keysCall.delivered
    /\ listening = {}
    /\ keysCall.key \in keys
    /\ keysCall.key \in DOMAIN ups
    /\ keysLog = <<>>


(***************************************************************************)
(* Properties of the key behaviours                                        *)
(***************************************************************************)
Materialised == IsDefined(kbSprite.behaviorsInst)

\* The positions of the declared behaviours that construct a Keys tracker.
TrackerOwners == { i \in DOMAIN kbDeclared : kbDeclared[i].kind \in KeyKinds }

ListenersOf(id, type) ==
    { n \in DOMAIN window : window[n].tracker = id /\ window[n].type = type }

DestroyRecords(log, i, j) ==
    { n \in DOMAIN log : log[n].op = "destroy" /\ log[n].inst = i /\ log[n].entry = j }

\* C15: Sprite.destroy() of an updated sprite destroys every instantiated
\* behaviour exactly once, the sub-behaviours of a SpeedRamp included, and
\* empties the instance list; the target holds exactly two listeners per
\* tracker of a sprite that is materialised and not destroyed, none otherwise.
C15_ListenerCount ==
    IF Materialised /\ ~kbDestroyed
    THEN /\ Len(window) = 2 * Cardinality(TrackerOwners)
         /\ Len(trackers) = Cardinality(TrackerOwners)
         /\ \A id \in DOMAIN trackers, type \in ListenerTypes :
               Cardinality(ListenersOf(id, type)) = 1
    ELSE window = <<>>

C15_DestroyStep ==
    (Materialised /\ kbCall'.op = "destroy" /\ kbVars' # kbVars) =>
        /\ ~kbCall'.threw
        /\ kbSprite'.behaviorsInst = Some(<<>>)
        /\ \A i \in DOMAIN Val(kbSprite.behaviorsInst) :
              /\ Cardinality(DestroyRecords(kbLog', i, 0)) = 1
              /\ \A j \in DOMAIN Val(kbSprite.behaviorsInst)[i].subs :
                    Cardinality(DestroyRecords(kbLog', i, j)) = 1
        /\ \A n \in DOMAIN kbLog' :
              /\ kbLog'[n].op = "destroy"
              /\ kbLog'[n].inst \in DOMAIN Val(kbSprite.behaviorsInst)
              /\ kbLog'[n].entry \in 0..Len(Val(kbSprite.behaviorsInst)[kbLog'[n].inst].subs)

IsKbKeyEvent == kbCall.op \in {"keydown", "keyup"}

\* The trackers whose listener for the event type is registered on the target.
LiveTrackers(type) == { id \in DOMAIN trackers : ListenersOf(id, type) # {} }

CallsBy(op, owner) == { n \in DOMAIN kbLog : kbLog[n].op = op /\ kbLog[n].inst = owner }

\* The onDown / onUp registrations of the tracker t for the event type.
HandlerMap(t, type) == IF type = "keydown" THEN t.downs ELSE t.ups

\* The behaviour at position i reacts to an event: it has a fire or a token.
Reacts(i) == IsDefined(kbDeclared[i].spec.fire) \/ IsDefined(kbDeclared[i].spec.token)

\* C16: every key event reaches every tracker that is live on the target: each
\* marks or unmarks all names of the key, runs its matching onDown / onUp
\* handler and calls preventDefault, and the live trackers agree on the held
\* keys whatever the other trackers did.
C16_AllTrackersReceiveEvents ==
    IsKbKeyEvent =>
        /\ \A id \in LiveTrackers(kbCall.op) :
              LET t == trackers[id]
                  names == Range(getKeys(kbCall.key))
              IN /\ IF kbCall.op = "keydown" THEN names \subseteq t.keys
                                             ELSE names \cap t.keys = {}
                 /\ Cardinality(CallsBy("preventDefault", t.owner)) = 1
                 /\ (/\ names \cap DOMAIN HandlerMap(t, kbCall.op) # {}
                     /\ ~kbCall.paused
                     /\ Reacts(t.owner))
                       => CallsBy("fire", t.owner) \cup CallsBy("handleEvent", t.owner) # {}
        /\ \A id1, id2 \in LiveTrackers(kbCall.op) : trackers[id1].keys = trackers[id2].keys

\* One keydown that ran the onDown handlers of two live trackers.
C16_Witness ==
    /\ kbCall.op = "keydown"
    /\ Cardinality(LiveTrackers("keydown")) = 2
    /\ \A id \in LiveTrackers("keydown") :
          /\ CallsBy("fire", trackers[id].owner) # {}
          /\ kbCall.key \in trackers[id].keys

\* The fire calls and token events the behaviour at position i made in the
\* most recent call or event.
Firings(i) == CallsBy("fire", i) \cup CallsBy("handleEvent", i)

OnKeyOwners == { i \in DOMAIN kbDeclared : kbDeclared[i].kind = "OnKey" }

\* The registered names of the tracker t that the most recent event reports.
MatchedNames(t) == Range(getKeys(kbCall.key)) \cap DOMAIN HandlerMap(t, kbCall.op)

\* C17: an OnKey behaviour fires nothing for a key event that occurs while the
\* game is paused, and for a key event of one of its keys that occurs while
\* the game is not paused it invokes its handler exactly once.
C17_OnKeyFiresOncePerUnpausedEvent ==
    IsKbKeyEvent =>
        \A id \in LiveTrackers(kbCall.op) :
            LET t == trackers[id]
            IN t.owner \in OnKeyOwners =>
                 Cardinality(Firings(t.owner)) =
                    IF ~kbCall.paused /\ MatchedNames(t) # {} /\ Reacts(t.owner)
                    THEN 1 ELSE 0

KbInstances == IF Materialised THEN Val(kbSprite.behaviorsInst) ELSE <<>>

HandleKeysInstances == { i \in DOMAIN KbInstances : KbInstances[i].kind = "HandleKeys" }

\* Some key of the entry is in the held set of the tracker of the instance i.
EntryHeld(i, entry) == Range(entry.keys) \cap trackers[KbInstances[i].tracker].keys # {}

EntryCalls(op, i, e) ==
    { n \in DOMAIN kbLog : kbLog[n].op = op /\ kbLog[n].inst = i /\ kbLog[n].entry = e }

\* C18: in every sprite update a HandleKeys behaviour calls the handler of
\* each entry that has a held key exactly once with that update's delta, or
\* dispatches one KeyHandlerEvent(token, delta) for an entry that gives a
\* token, and makes no call for an entry none of whose keys is held.
C18_HandleKeysCallsEveryHeldEntry ==
    (kbCall.op = "update" /\ ~kbCall.threw) =>
        \A i \in HandleKeysInstances :
            \A e \in DOMAIN kbDeclared[i].entries :
                LET entry == kbDeclared[i].entries[e]
                    due == IF EntryHeld(i, entry) THEN 1 ELSE 0
                IN /\ Cardinality(EntryCalls("handler", i, e)) =
                         IF IsDefined(entry.handler) THEN due ELSE 0
                   /\ Cardinality(EntryCalls("handleEvent", i, e)) =
                         IF ~IsDefined(entry.handler) /\ IsDefined(entry.token)
                         THEN due ELSE 0
                   /\ \A n \in EntryCalls("handler", i, e) \cup EntryCalls("handleEvent", i, e) :
                         kbLog[n].delta = kbCall.delta

\* The entries of the HandleKeys behaviour at i with neither handler nor token.
BareEntries(i) ==
    { e \in DOMAIN kbDeclared[i].entries :
        ~IsDefined(kbDeclared[i].entries[e].handler) /\ ~IsDefined(kbDeclared[i].entries[e].token) }

\* The OnKey behaviours whose spec has neither fire nor token.
BareOnKeys == { i \in OnKeyOwners : ~Reacts(i) }

OnlyKeyHandlers == \A i \in DOMAIN kbDeclared : kbDeclared[i].kind \in {"HandleKeys", "OnKey"}

\* C19: a HandleKeys entry with neither handler nor token and an OnKey spec
\* with neither fire nor token never call a handler or sprite.handleEvent, and
\* construction, updates and key events of a sprite made of HandleKeys and
\* OnKey behaviours never throw and leave pos, vel, accel and rotation alone.
C19_MisconfiguredIsNoOp ==
    /\ \A i \in BareOnKeys : Firings(i) = {}
    /\ \A i \in DOMAIN kbDeclared :
          \A e \in BareEntries(i) :
              EntryCalls("handler", i, e) \cup EntryCalls("handleEvent", i, e) = {}
    /\ OnlyKeyHandlers =>
          /\ kbCall.op \in {"update", "keydown", "keyup"} => ~kbCall.threw
          /\ kbSprite.pos = point(0, 0)
          /\ kbSprite.vel = point(10, 0)
          /\ kbSprite.accel = point(0, 0)
          /\ kbSprite.rotation = 0

\* An update in which a bare HandleKeys entry has a held key, on a sprite that
\* also has a bare OnKey whose tracker has seen a keydown of its key.
C19_Witness ==
    /\ kbCall.op = "update"
    /\ ~kbCall.threw
    /\ OnlyKeyHandlers
    /\ \E i \in HandleKeysInstances : \E e \in BareEntries(i) :
          EntryHeld(i, kbDeclared[i].entries[e])
    /\ \E i \in BareOnKeys :
          /\ i \in DOMAIN KbInstances
          /\ DOMAIN trackers[KbInstances[i].tracker].downs
               \cap trackers[KbInstances[i].tracker].keys # {}

\* C20: one update with delta d of a sprite whose only behaviour is Momentum
\* completes and sets pos to (pos.x + vel.x * d.seconds, pos.y + vel.y *
\* d.seconds), the pos at entry being lastPos, and leaves vel, accel and
\* rotation unchanged; from (0,0) with vel (10,0) and 500 ms it ends at (5,0).
C20_MomentumAdvancesPos ==
    (kbDeclared = <<Momentum>> /\ kbCall.op = "update") =>
        /\ ~kbCall.threw
        /\ kbSprite.pos = Advanced(Val(kbSprite.lastPos), kbSprite.vel, kbCall.delta)
        /\ kbSprite.vel = point(10, 0)
        /\ kbSprite.accel = point(0, 0)
        /\ kbSprite.rotation = 0
        /\ (Val(kbSprite.lastPos) = point(0, 0) /\ kbCall.delta = 500)
              => kbSprite.pos = point(5, 0)

(***************************************************************************)
(* Properties of the movement behaviours.                                  *)
(***************************************************************************)
\* The speed of v, squared, is m squared.
HasSpeed(v, m) == m >= 0 /\ v.x * v.x + v.y * v.y = m * m

\* v points the way u does (or is zero): v is a non-negative multiple of u.
SameDirection(v, u) ==
    /\ v.x * u.y = v.y * u.x
    /\ v.x * u.x + v.y * u.y >= 0

\* C21: a Friction(strength) update sets the speed to the greater of 0 and
\* the prior speed less strength * delta.s and keeps the direction; when
\* strength * delta.s is at least the prior speed, vel is exactly (0, 0).
C21_FrictionReducesSpeed ==
    phCall.op = "Friction" =>
        LET prior == distFrom(phEntry.vel)
            drop == phCall.arg * phCall.delta
        IN  /\ HasSpeed(phEntry.vel, prior)
            /\ drop >= prior * 1000 => phSprite.vel = point(0, 0)
            /\ drop < prior * 1000 =>
                   /\ HasSpeed(phSprite.vel, prior - drop \div 1000)
                   /\ (prior - drop \div 1000) * 1000 = prior * 1000 - drop
                   /\ SameDirection(phSprite.vel, phEntry.vel)
            /\ phSprite.pos = phEntry.pos
            /\ phSprite.accel = phEntry.accel
            /\ phSprite.rotation = phEntry.rotation

\* Friction of strength 4 over 1000 ms has stopped a sprite of speed 2, and
\* friction has slowed a faster sprite without stopping it.
C21_Witness ==
    /\ phCall.op = "Friction"
    /\ phCall.arg = 4
    /\ phCall.delta = 1000
    /\ phEntry.vel = point(2, 0)
    /\ phSprite.vel = point(0, 0)

C21_WitnessSlowed ==
    /\ phCall.op = "Friction"
    /\ phCall.arg = 4
    /\ phCall.delta = 500
    /\ phEntry.vel = point(0, 0 - 6)
    /\ phSprite.vel = point(0, 0 - 4)

C22_WitnessUnder ==
    /\ phCall.op = "SpeedLimited"
    /\ phCall.arg = 3
    /\ phEntry.vel = point(2, 0)
    /\ phSprite.vel = point(2, 0)

(***************************************************************************)
(* Properties of the steering behaviours.                                  *)
(***************************************************************************)
\* The instance i, of a behaviour with actions, has a key of `label` held.
LabelHeld(i, label) ==
    \E n \in DOMAIN KbInstances[i].factory.actions :
        /\ KbInstances[i].factory.actions[n].label = label
        /\ Range(KbInstances[i].factory.actions[n].keys)
               \cap trackers[KbInstances[i].tracker].keys # {}

Indicator(b) == IF b THEN 1 ELSE 0

InstancesOf(kind) == { i \in DOMAIN KbInstances : KbInstances[i].kind = kind }

CompletedUpdate == kbCall.op = "update" /\ ~kbCall.threw

\* C23: a ThrustKeys update overwrites accel with the sum of the unit vectors
\* of the held labels (forward (1,0), back (-1,0), left (0,-1), right (0,1))
\* rotated by the sprite's rotation, whatever accel was before; opposite
\* labels cancel, no label gives (0,0); pos, vel and rotation are unchanged.
C23_ThrustKeysOverwritesAccel ==
    (CompletedUpdate /\ InstancesOf("SpeedRamp") = {}) =>
        \A i \in InstancesOf("ThrustKeys") :
            LET x == Indicator(LabelHeld(i, "forward")) - Indicator(LabelHeld(i, "back"))
                y == Indicator(LabelHeld(i, "right")) - Indicator(LabelHeld(i, "left"))
                r == kbSprite.rotation
            IN  /\ kbSprite.accel = point(x * Cos(r) - y * Sin(r), x * Sin(r) + y * Cos(r))
                /\ kbSprite.pos = kbEntry.pos
                /\ kbSprite.vel = kbEntry.vel
                /\ InstancesOf("RotateKeys") = {} => kbSprite.rotation = kbEntry.rotation

\* A sprite turned a quarter turn, whose accel was (0,1) from the update
\* before, has updated with forward and right held: accel is (1,1) rotated,
\* (-1,1).
C23_Witness ==
    /\ CompletedUpdate
    /\ \E i \in InstancesOf("ThrustKeys") :
           LabelHeld(i, "forward") /\ LabelHeld(i, "right")
    /\ kbEntry.accel = point(0, 1)
    /\ kbSprite.rotation = 1
    /\ kbSprite.accel = point(0 - 1, 1)

\* Forward and back held together have cancelled.
C23_WitnessCancel ==
    /\ CompletedUpdate
    /\ InstancesOf("SpeedRamp") = {}
    /\ \E i \in InstancesOf("ThrustKeys") :
           LabelHeld(i, "forward") /\ LabelHeld(i, "back")
    /\ kbEntry.accel # point(0, 0)
    /\ kbSprite.accel = point(0, 0)

\* The first update of a sprite whose accel was assigned (3,-2), no key held.
C23_WitnessNoneHeld ==
    /\ CompletedUpdate
    /\ InstancesOf("ThrustKeys") # {}
    /\ InstancesOf("SpeedRamp") = {}
    /\ kbEntry.accel = point(3, 0 - 2)
    /\ kbSprite.accel = point(0, 0)

C27_WitnessBoth ==
    /\ CompletedUpdate
    /\ \E i \in InstancesOf("RotateKeys") :
           LabelHeld(i, "counter") /\ LabelHeld(i, "clock")
    /\ kbEntry.rotation = 1
    /\ kbSprite.rotation = 1

\* A sprite whose rotation was assigned -1, or 5, has updated with no key held.
C27_WitnessOutOfRange ==
    /\ CompletedUpdate
    /\ InstancesOf("RotateKeys") # {}
    /\ \/ kbEntry.rotation = 0 - 1 /\ kbSprite.rotation = 3
       \/ kbEntry.rotation = 5 /\ kbSprite.rotation = 1

\* The calls the SpeedRamp instance i made to its sub-behaviours, in order.
SubUpdatesOf(i) ==
    LET Mine(c) == c.op = "subUpdate" /\ c.inst = i
    IN SelectSeq(kbLog, Mine)

SquaredSpeed(v) == v.x * v.x + v.y * v.y

\* The instance i has exactly one thrust direction held: a unit thrust.
UnitThrust(i) ==
    Indicator(LabelHeld(i, "forward")) + Indicator(LabelHeld(i, "back"))
        + Indicator(LabelHeld(i, "left")) + Indicator(LabelHeld(i, "right")) = 1

NoThrust(i) == \A side \in Range(Sides) : ~LabelHeld(i, side)

\* C24: an update of SpeedRamp(maxSpeed, rampUp, rampDown) runs exactly five
\* sub-steps, once each, in this order and with the same delta: Thrust,
\* Acceleration, Friction, SpeedLimited, Momentum.
C24_SpeedRampRunsFiveSubSteps ==
    kbCall.op = "update" =>
        \A i \in InstancesOf("SpeedRamp") :
            /\ ~kbCall.threw
            /\ SubUpdatesOf(i) =
                   [j \in 1..5 |-> KbCallRecord("subUpdate", i, j, SpeedRampParts[j],
                                                kbCall.delta)]

\* C25: for ThrustKeys followed by SpeedRamp, after every tick the speed is at
\* most maxSpeed and the sprite has moved at most maxSpeed * delta.s; from
\* rest under a held thrust the speed rises towards maxSpeed, never past it.
C25_SpeedRampBoundsSpeed ==
    kbCall.op = "update" =>
        \A i \in InstancesOf("SpeedRamp") :
            LET maxSpeed == KbInstances[i].factory.limit
                moved == diff(kbSprite.pos, kbEntry.pos)
            IN  /\ ~kbCall.threw
                /\ SquaredSpeed(kbSprite.vel) <= maxSpeed * maxSpeed
                /\ SquaredSpeed(moved) * 1000 * 1000
                       <= (maxSpeed * kbCall.delta) * (maxSpeed * kbCall.delta)
                /\ \A k \in InstancesOf("ThrustKeys") :
                       (UnitThrust(k) /\ kbEntry.vel = point(0, 0)) =>
                           SquaredSpeed(kbSprite.vel) > 0

\* C26: for ThrustKeys followed by SpeedRamp, from rest with one label held
\* the speed grows by maxSpeed / rampUp per second (so it first equals
\* maxSpeed when the deltas sum to rampUp seconds), and from maxSpeed with no
\* label held it falls by maxSpeed / rampDown per second to zero.
C26_SpeedRampRampsLinearly ==
    kbCall.op = "update" =>
        \A i \in InstancesOf("SpeedRamp"), k \in InstancesOf("ThrustKeys") :
            LET f == KbInstances[i].factory
                up == ((f.strength - f.friction) * kbCall.delta) \div 1000
                down == (f.friction * kbCall.delta) \div 1000
            IN  /\ (UnitThrust(k) /\ kbEntry.vel = point(0, 0)) =>
                       SquaredSpeed(kbSprite.vel) = up * up
                /\ (NoThrust(k) /\ SquaredSpeed(kbEntry.vel) = f.limit * f.limit) =>
                       SquaredSpeed(kbSprite.vel) = (f.limit - down) * (f.limit - down)

(***************************************************************************)
(* Properties of RotateToward, RotateTowardPlus and RotateAwayFrom.        *)
(***************************************************************************)
\* The rotation that faces the sprite's top, which points up the canvas at
\* rotation 0, from `pos` along the direction to `dest`, plus addRot.
DesiredFacing(pos, dest, addRot) ==
    Atan2(dest.y - pos.y, dest.x - pos.x) + FullTurn \div 4 + addRot

\* The signed turns of least size that take the rotation `from` to `to`.
ShortestTurns(from, to) ==
    LET Turns == { g \in (0 - FullTurn \div 2)..(FullTurn \div 2) :
                     (from + g - to) % FullTurn = 0 }
    IN { g \in Turns : \A h \in Turns : Abs(g) <= Abs(h) }

\* The turn g cut down to at most `most` in size.
Limited(g, most) ==
    IF Abs(g) <= most THEN g ELSE IF g < 0 THEN 0 - most ELSE most

\* C28: one update of RotateToward, RotateTowardPlus or RotateAwayFrom changes
\* rotation by at most rotSpeed * delta.s and by at most half a turn, along a
\* shortest path from the current rotation to the desired facing, and lands
\* on the desired facing when that is within reach; with an undefined target
\* the rotation is unchanged.
C28_RotateTowardTurnsShortWay ==
    phCall.op = "RotateToward" =>
        LET this == phCall.arg
            maxRot == (this.rotSpeed * phCall.delta) \div 1000
            change == phSprite.rotation - phEntry.rotation
        IN  /\ phSprite.pos = phEntry.pos
            /\ phSprite.vel = phEntry.vel
            /\ phSprite.accel = phEntry.accel
            /\ ~IsDefined(this.loc) => change = 0
            /\ IsDefined(this.loc) =>
                   /\ Abs(change) <= maxRot
                   /\ Abs(change) <= FullTurn \div 2
                   /\ Val(this.loc) # phEntry.pos =>
                          LET facing == DesiredFacing(phEntry.pos, Val(this.loc),
                                                      this.addRot)
                              turns == ShortestTurns(phEntry.rotation, facing)
                          IN  /\ change \in { Limited(g, maxRot) : g \in turns }
                              /\ (\A g \in turns : Abs(g) <= maxRot) =>
                                     (phSprite.rotation - facing) % FullTurn = 0

\* RotateToward at half a turn per second, the target to the sprite's right,
\* the rotation 0, 500 ms: the rotation is a quarter turn.
C28_Witness ==
    /\ phCall.op = "RotateToward"
    /\ phCall.arg = RotateToward(Some(point(3, 0)), FullTurn \div 2)
    /\ phCall.delta = 500
    /\ phEntry.rotation = 0
    /\ phSprite.rotation = 1

\* RotateAwayFrom a target half a turn off, within reach of one quarter turn
\* only: the rotation has moved one quarter turn and is not yet there.
C28_WitnessOutOfReach ==
    /\ phCall.op = "RotateToward"
    /\ phCall.arg = RotateAwayFrom(Some(point(3, 0)), FullTurn \div 2)
    /\ phCall.delta = 500
    /\ phEntry.rotation = 1
    /\ Abs(phSprite.rotation - phEntry.rotation) = 1

\* The shorter way round is against the clock: from 0 to the facing 3.
C28_WitnessCounter ==
    /\ phCall.op = "RotateToward"
    /\ phCall.arg = RotateToward(Some(point(0 - 3, 0)), DefaultRotSpeed)
    /\ phCall.delta = 1000
    /\ phEntry.rotation = 0
    /\ phSprite.rotation = 0 - 1

\* No target: the rotation stays.
C28_WitnessUndefined ==
    /\ phCall.op = "RotateToward"
    /\ ~IsDefined(phCall.arg.loc)
    /\ phCall.delta = 1000
    /\ phEntry.rotation = 1
    /\ phSprite.rotation = 1

(***************************************************************************)
(* Properties of Bounded.                                                  *)
(***************************************************************************)
\* The rectangle of the Bounded update, shrunk by the body's bounding box.
ShrunkRect ==
    LET a == phCall.arg.drect.rect
        outer == IF "x" \in DOMAIN a
                 THEN TLBR(a.y, a.x, a.y + a.h, a.x + a.w)
                 ELSE a
        body == phCall.arg.bounds
        inner == IF "x" \in DOMAIN body
                 THEN TLBR(body.y, body.x, body.y + body.h, body.x + body.w)
                 ELSE body
    IN  TLBR(outer.t - inner.t, outer.l - inner.l, outer.b - inner.b, outer.r - inner.r)

Overshoot(v, low, high) == IF v < low THEN v - low ELSE IF v > high THEN v - high ELSE 0

\* C29: one update of Bounded(drect, cb) calls the callback once, with the
\* sprite, the shrunk rectangle and the exceedance, if and only if the
\* sprite's pos is strictly outside the shrunk rectangle on some axis; the
\* exceedance is per axis 0 when within or on the bounds and otherwise the
\* signed overshoot, negative for left/top and positive for right/bottom.
C29_BoundedCallsBackWhenOutside ==
    phCall.op = "Bounded" =>
        LET rect == ShrunkRect
            pos == phEntry.pos
            outside == \/ pos.x < rect.l \/ pos.x > rect.r
                       \/ pos.y < rect.t \/ pos.y > rect.b
        IN  /\ outside <=> phLog # <<>>
            /\ outside =>
                   phLog = <<[op |-> "cb", sprite |-> pos, bounds |-> rect,
                              exceed |-> [x |-> Overshoot(pos.x, rect.l, rect.r),
                                          y |-> Overshoot(pos.y, rect.t, rect.b)]]>>

(***************************************************************************)
(* Properties of Camera.render.                                            *)
(***************************************************************************)
\* Where the transform m sends the point p.
Image(m, p) == point(m[1] * p.x + m[3] * p.y + m[5], m[2] * p.x + m[4] * p.y + m[6])

\* Where the point p of the entity n belongs on the canvas: rotated by the
\* entity's rotation, moved by its pos, moved by minus the camera's pos,
\* rotated by minus the camera's rotation, scaled, moved to the canvas centre.
OnCanvas(n, p) ==
    LET own == rotated(p, placement[n].rotation)
        inWorld == point(own.x + placement[n].pos.x, own.y + placement[n].pos.y)
        fromCamera == rotated(point(inWorld.x - camera.pos.x, inWorld.y - camera.pos.y),
                              0 - camera.rotation)
    IN  point(camera.scale * fromCamera.x + CanvasWidth \div 2,
              camera.scale * fromCamera.y + CanvasHeight \div 2)

DrawCalls(n) ==
    { i \in DOMAIN canvasLog : canvasLog[i].op = "draw" /\ canvasLog[i].node = n }

C30_WitnessSibling ==
    /\ cameraCall.op = "render"
    /\ DrawCalls(2) # {}
    /\ placement[1] = Placed(point(30, 40), 0)
    /\ placement[2] = Placed(point(0, 0), 3)
    /\ camera.scale = 1

(***************************************************************************)
(* Properties of Camera.render and the entities' autoRotate.               *)
(***************************************************************************)
\* Where the point p of the entity n belongs on the canvas when the entity
\* is turned by q before it is drawn.
OnCanvasTurned(n, p, q) ==
    LET own == rotated(p, q)
        inWorld == point(own.x + placement[n].pos.x, own.y + placement[n].pos.y)
        fromCamera == rotated(point(inWorld.x - camera.pos.x, inWorld.y - camera.pos.y),
                              0 - camera.rotation)
    IN  point(camera.scale * fromCamera.x + CanvasWidth \div 2,
              camera.scale * fromCamera.y + CanvasHeight \div 2)

\* C31: Camera.render applies rotate(entity.rotation) before draw exactly for
\* the entities whose autoRotate is true; an entity whose autoRotate is false
\* is drawn moved to its pos and not turned, whatever its rotation.
C31_AutoRotateOptOutRespected ==
    cameraCall.op = "render" =>
        \A i \in DOMAIN canvasLog :
            canvasLog[i].op = "draw" =>
                \A p \in {point(0, 0), point(1, 0), point(0, 1)} :
                    Image(canvasLog[i].transform, p)
                        = OnCanvasTurned(canvasLog[i].node, p,
                                         IF autoRotate(canvasLog[i].node)
                                         THEN placement[canvasLog[i].node].rotation
                                         ELSE 0)

(***************************************************************************)
(* Properties of new Game.                                                  *)
(***************************************************************************)
\* A parent the page cannot resolve: a string that does not begin with '#',
\* or '#' followed by an id that no element has.
UnusableParent(parent) ==
    /\ IsDefined(parent)
    /\ Val(parent).type = "string"
    /\ \/ Val(parent).value = <<>>
       \/ Head(Val(parent).value) # "#"
       \/ \A e \in Elements : ElementId(e) = <<>> \/ ElementId(e) # Tail(Val(parent).value)

\* C32: new Game with a string parent that does not begin with '#', with a
\* '#id' that matches no element, or on a canvas without a 2D context throws
\* at construction and yields no Game object; every game that has a driver or
\* a tick was constructed from a usable parent with a 2D context.
C32_BadConfigurationFailsAtConstruction ==
    /\ (ctorCall.op = "new" /\ (UnusableParent(ctorCall.parent) \/ ~ctorCall.context2d)) =>
           /\ ctorCall.threw
           /\ ctorCall.message # ""
           /\ Len(games) = ctorCall.gamesBefore
    /\ \A g \in DOMAIN games :
           /\ ~UnusableParent(games[g].parent)
           /\ games[g].context2d
    /\ (ctorCall.op = "new" /\ ~ctorCall.threw) => Len(games) = ctorCall.gamesBefore + 1

\* A parent without '#' was refused while an earlier game is running and ticking.
C32_Witness ==
    /\ ctorCall.op = "new"
    /\ ctorCall.parent = StringParent(<<"s", "t">>)
    /\ ctorCall.threw
    /\ Len(games) = 1
    /\ games[1].ticks > 0

\* '#no' matches no element: refused, and nothing was appended to the page.
C32_WitnessNoElement ==
    /\ ctorCall.op = "new"
    /\ ctorCall.parent = StringParent(<<"#", "n", "o">>)
    /\ ctorCall.threw
    /\ games = <<>>
    /\ \A e \in Elements : document[e] = 0

\* No 2D context: refused after the canvas was appended to the element found.
C32_WitnessNoContext ==
    /\ ctorCall.op = "new"
    /\ ctorCall.parent = StringParent(<<"#", "s", "t">>)
    /\ ~ctorCall.context2d
    /\ ctorCall.threw
    /\ games = <<>>
    /\ document["stage"] = 1

(***************************************************************************)
(* Properties of Momentum followed by Bounded(rect, spriteBounce).          *)
(***************************************************************************)
Within(pos, rect) ==
    /\ rect.l <= pos.x /\ pos.x <= rect.r
    /\ rect.t <= pos.y /\ pos.y <= rect.b

\* Where the sprite is after Momentum alone, from the fields at entry.
Carried == point(phEntry.pos.x + (phEntry.vel.x * phCall.delta) \div 1000,
                 phEntry.pos.y + (phEntry.vel.y * phCall.delta) \div 1000)

\* The displacement of the tick is smaller than the shrunk rectangle.
SmallStep ==
    /\ Abs(Carried.x - phEntry.pos.x) < ShrunkRect.r - ShrunkRect.l
    /\ Abs(Carried.y - phEntry.pos.y) < ShrunkRect.b - ShrunkRect.t

\* One coordinate after the bounce: mirrored in the edge it went beyond.
Mirrored(v, low, high) == IF v < low THEN 2 * low - v ELSE IF v > high THEN 2 * high - v ELSE v

C33_WitnessCorner ==
    /\ phCall.op = "update"
    /\ SmallStep
    /\ Overshoot(Carried.x, ShrunkRect.l, ShrunkRect.r) # 0
    /\ Overshoot(Carried.y, ShrunkRect.t, ShrunkRect.b) # 0

\* A tick without a bounce, and a tick too long for the rectangle.
C33_WitnessNoBounce ==
    /\ phCall.op = "update"
    /\ SmallStep
    /\ phLog = <<>>
    /\ phSprite.pos # phEntry.pos

C33_WitnessLongStep ==
    /\ phCall.op = "update"
    /\ ~SmallStep
    /\ ~Within(phSprite.pos, ShrunkRect)

(***************************************************************************)
(* Properties of repeated RotateToward updates.                             *)
(***************************************************************************)
TurningFacing == DesiredFacing(phSprite.pos, Val(phCall.arg.loc), phCall.arg.addRot)

\* How far, in size, the rotation r is from the facing.
TurnsLeft(r) ==
    CHOOSE d \in 0..(FullTurn \div 2) :
        \E g \in ShortestTurns(r, TurningFacing) : Abs(g) = d

AtFacing == (phSprite.rotation - TurningFacing) % FullTurn = 0

\* C34: with a fixed position, a fixed defined target, a positive rotSpeed and
\* ticks of positive delta, the rotation reaches the desired facing modulo a
\* full turn and stays there; every update moves it by exactly the amount by
\* which it gets nearer the facing, so it never goes past it or back and
\* forth, and an update at the facing leaves the rotation as it is.
C34_RotateTowardSettles ==
    /\ <>[]AtFacing
    /\ [][ /\ TurnsLeft(phSprite.rotation')
                = TurnsLeft(phSprite.rotation) - Abs(phSprite.rotation' - phSprite.rotation)
           /\ AtFacing => phSprite.rotation' = phSprite.rotation ]_vars

\* An update has brought the rotation onto the facing, half a turn away at first.
C34_Witness ==
    /\ phCall.op = "RotateToward"
    /\ AtFacing
    /\ phSprite.rotation # phEntry.rotation
    /\ phCall.arg.rotSpeed = FullTurn \div 2
    /\ phCall.delta = 500

\* An update at the facing has left the rotation where it was.
C34_WitnessHeld ==
    /\ phCall.op = "RotateToward"
    /\ AtFacing
    /\ phSprite.rotation = phEntry.rotation
    /\ phSprite.rotation # TurningFacing

(***************************************************************************)
(* Properties of repeated Game.start().                                     *)
(***************************************************************************)
\* C35: however often start() is called the game has at most one frame
\* driver, game.elapsed never runs ahead of the wall clock, and a tick comes
\* no sooner than one frame interval after the tick before it.
C35_OneTickPerInterval ==
    [][ /\ Len(drivers') <= 1
        /\ elapsed' <= now'
        /\ (nTicks' = nTicks + 1 /\ nTicks >= 1) => now' - now >= 1000 \div fps ]_vars

(***************************************************************************)
(* Properties of the save and restore calls of Camera.render.              *)
(***************************************************************************)
RECURSIVE NestingDepth(_, _)
\* How many containers of the scene sc lie above the entity n.
NestingDepth(sc, n) ==
    IF n \in Range(sc) THEN 0
    ELSE 1 + NestingDepth(Val(subsprites(CHOOSE m \in Range(sc) :
                                             n \in Descendants(m))), n)

\* The draw calls logged by the render.
AllDrawCalls == { i \in DOMAIN canvasLog : canvasLog[i].op = "draw" }

\* C36: the save and restore calls of Camera.render are balanced: when render
\* returns, the saved states of the context are those it had on entry; every
\* entity is drawn under the camera transform of its scene, also one that
\* follows a container whose sub-scene was rendered; and when an entity's draw
\* throws, that entity's save has been restored (in the finally), so that the
\* context holds the saved states of entry and above them only one for each
\* render call the exception left.
C36_SaveRestoreBalanced ==
    cameraCall.op = "render" =>
        /\ cameraCall.threw <=> cameraCall.thrower \in SceneEntities(cameraCall.scene)
        /\ ~cameraCall.threw => context.stack = cameraCall.entry
        /\ cameraCall.threw =>
               /\ Len(context.stack)
                      = Len(cameraCall.entry) + 1
                            + NestingDepth(cameraCall.scene, cameraCall.thrower)
               /\ SubSeq(context.stack, 1, Len(cameraCall.entry)) = cameraCall.entry
               /\ canvasLog[Len(canvasLog)].node = cameraCall.thrower
        /\ \A i \in AllDrawCalls :
               \A p \in {point(0, 0), point(1, 0), point(0, 1)} :
                   Image(canvasLog[i].transform, p) = OnCanvas(canvasLog[i].node, p)

\* A render has returned that was entered with saved states on the context,
\* under a camera moved, turned and zoomed; the entity 4 was drawn after the
\* sub-scene of its sibling 3, the entity 2 after the sub-scene of the entity 1.
C36_Witness ==
    /\ cameraCall.op = "render"
    /\ ~cameraCall.threw
    /\ cameraCall.scene = <<1, 2>>
    /\ Len(cameraCall.entry) = 2
    /\ context.stack = cameraCall.entry
    /\ camera.pos = point(10, 0 - 20)
    /\ camera.rotation = 1
    /\ camera.scale = 2
    /\ \E i, j, k \in AllDrawCalls :
           /\ i < j
           /\ j < k
           /\ canvasLog[i].node = 5
           /\ canvasLog[j].node = 4
           /\ canvasLog[k].node = 2

\* The draw of the entity 5, two containers deep, has thrown.
C36_WitnessThrow ==
    /\ cameraCall.op = "render"
    /\ cameraCall.threw
    /\ cameraCall.thrower = 5
    /\ cameraCall.scene = <<1, 2>>
    /\ Len(context.stack) = Len(cameraCall.entry) + 3
    /\ camera.scale = 2

\* The draw of the entity 2, which follows a container, has thrown.
C36_WitnessThrowSibling ==
    /\ cameraCall.op = "render"
    /\ cameraCall.threw
    /\ cameraCall.thrower = 2
    /\ cameraCall.entry = <<>>
    /\ Len(context.stack) = 1
    /\ Cardinality(AllDrawCalls) = 4

(***************************************************************************)
(* Properties of the held-key tracking across pauses.                      *)
(***************************************************************************)
\* Every name getKeys gives for the keys that are physically down.
HeldNames ==
    UNION { Range(getKeys(name)) :
              name \in UNION { ReportedNames(phys) : phys \in kbHeld } }

\* The trackers whose listeners are on the window.
ListeningTrackers == { id \in DOMAIN trackers : \E n \in DOMAIN window : window[n].tracker = id }

\* A key of the key list is physically down.
AnyHeld(keyList) == Range(keyList) \cap HeldNames # {}

\* C37: the trackers follow the keyboard whatever game.paused is: after a
\* keydown a listening tracker holds the names of the key, after a keyup it
\* holds none of them, paused or not, so that a tracker never holds a key that
\* is no longer down; and an update runs a HandleKeys entry, gives a
\* ThrustKeys thrust, or turns a RotateKeys sprite only for keys that are down
\* at the time of the update.
C37_HeldKeysIndependentOfPause ==
    /\ \A id \in ListeningTrackers :
           /\ trackers[id].keys \subseteq HeldNames
           /\ kbCall.op = "keydown" => Range(getKeys(kbCall.key)) \subseteq trackers[id].keys
           /\ kbCall.op = "keyup" => Range(getKeys(kbCall.key)) \cap trackers[id].keys = {}
    /\ (CompletedUpdate /\ ~kbDestroyed) =>
           /\ \A n \in DOMAIN kbLog :
                  (kbLog[n].op \in {"handler", "handleEvent"} /\ kbLog[n].entry # 0) =>
                      AnyHeld(KbInstances[kbLog[n].inst].factory.entries[kbLog[n].entry].keys)
           /\ \A i \in InstancesOf("ThrustKeys") :
                  (\A n \in DOMAIN KbInstances[i].factory.actions :
                      ~AnyHeld(KbInstances[i].factory.actions[n].keys))
                  => kbSprite.accel = point(0, 0)
           /\ \A i \in InstancesOf("RotateKeys") :
                  (\A n \in DOMAIN KbInstances[i].factory.actions :
                      ~AnyHeld(KbInstances[i].factory.actions[n].keys))
                  => (kbSprite.rotation - kbEntry.rotation) % FullTurn = 0

\* A key that a tracker held has come up while the game was paused, and the
\* tracker has dropped it.
C37_Witness ==
    /\ kbCall.op = "keyup"
    /\ kbCall.paused
    /\ kbCall.key = "A"
    /\ kbHeld = {}
    /\ ListeningTrackers # {}
    /\ \A id \in ListeningTrackers : trackers[id].keys = {}
    /\ \E id \in ListeningTrackers : "a" \in DOMAIN trackers[id].connections

\* A key has gone down while the game was paused, and the tracker holds it.
C37_WitnessDownPaused ==
    /\ kbCall.op = "keydown"
    /\ kbCall.paused
    /\ ~kbCall.repeat
    /\ \E id \in ListeningTrackers : trackers[id].keys = {"Up", "ArrowUp"}

\* An update with the game running and no key down, by a sprite whose entries
\* and turning are bound to keys: it has pulsed no label, run no entry and
\* not turned.
C37_WitnessNothingAfterwards ==
    /\ CompletedUpdate
    /\ ~kbCall.paused
    /\ kbHeld = {}
    /\ InstancesOf("HandleKeys") # {}
    /\ InstancesOf("RotateKeys") # {}
    /\ \A id \in ListeningTrackers : trackers[id].actionTracker = Some({})
    /\ kbLog = <<>>
    /\ kbSprite.rotation = kbEntry.rotation

(***************************************************************************)
(* Properties of Sprite.destroy() over the sprite's life.                  *)
(***************************************************************************)
\* C38: Sprite.destroy() completes without an exception in every state of the
\* sprite's life: on a sprite that was never updated it instantiates no
\* behaviour; on a destroyed sprite it does nothing; and an update of a
\* destroyed sprite runs no behaviour and instantiates none.
C38_DestroyIsAlwaysSafe ==
    /\ kbCall.op = "destroy" =>
           /\ ~kbCall.threw
           /\ \A n \in DOMAIN kbLog : kbLog[n].op = "destroy"
           /\ KbInstances = <<>>
    /\ (kbCall.op = "update" /\ kbDestroyed) =>
           /\ ~kbCall.threw
           /\ kbLog = <<>>
           /\ KbInstances = <<>>
           /\ ~IsDefined(kbSprite.behaviors)

(***************************************************************************)
(* Properties of clampRadians, at its call in the RotateToward update.     *)
(***************************************************************************)
\* What the most recent RotateToward update handed to clampRadians:
\* desiredDir - sp.rotation, with the position and rotation of entry.
ClampedDir ==
    asDirMag(diff(phEntry.pos, Val(phCall.arg.loc))).dir - FullTurn \div 4
        + phCall.arg.addRot - phEntry.rotation

\* C39: clampRadians(dir) is at least 0 and less than a full turn, and differs
\* from dir by a whole number of full turns, for negative dir and for whole
\* multiples of a full turn too.
C39_ClampRadiansInRange ==
    (phCall.op = "RotateToward" /\ IsDefined(phCall.arg.loc)) =>
        /\ 0 <= clampRadians(ClampedDir)
        /\ clampRadians(ClampedDir) < FullTurn
        /\ (clampRadians(ClampedDir) - ClampedDir) % FullTurn = 0

====
